---- MODULE Spec2Model ----
(***************************************************************************)
(* SmartDine POS: order lifecycle (orderController.ts, the Order schema    *)
(* and its pre-save hooks), the authentication service and middleware     *)
(* (authService.ts, auth middleware) and the permission engine.            *)
(*                                                                         *)
(* Persistence is Mongoose on MongoDB.  Model.create / document.save run   *)
(* the document validation first (Mongoose registers it as the first       *)
(* pre('save') hook), then the schema's own pre('save') hooks in the order *)
(* they were declared, then the write, where the unique indexes are        *)
(* enforced.  findByIdAndUpdate runs the update validators and the write;  *)
(* it runs no save hook.                                                   *)
(***************************************************************************)
EXTENDS Integers, Sequences, FiniteSets, TLC

VARIABLES
    orders,     \* the orders collection: _id -> persisted document
    nextId,     \* the next _id the driver allocates
    today,      \* index of the server's current calendar day
    inflight,   \* connection -> order document between its hooks and its insert
    users,      \* the users collection: _id -> persisted identity
    issued,     \* the tokens the service has signed so far
    clock,      \* server time, in days
    perm,       \* a call of hasPermission: its arguments and its result
    req,        \* the request a middleware is handed: user, params, query, headers
    res         \* the response to the request handled last

orderVars == <<orders, nextId, today, inflight>>
authVars == <<users, issued, clock>>
vars == <<orders, nextId, today, inflight, users, issued, clock, perm, req, res>>

----------------------------------------------------------------------------
(* Bounds *)

MaxOrders == 2      \* documents ever inserted
MaxDay == 2         \* calendar days the server lives through
MaxConns == 2       \* requests in flight at once
MaxUsers == 2       \* identities ever registered
MaxClock == 1       \* days of server time
MaxRaced == 1       \* orders the interleaved requests contend for

----------------------------------------------------------------------------
(* Types (types/index.ts, Order schema) *)

OrderStatus == {"pending", "confirmed", "preparing", "ready", "served", "cancelled"}

Tenants == {"rA", "rB"}

\* req.user of the authenticated callers
Callers == {[id |-> "u1", restaurantId |-> "rA"], [id |-> "u2", restaurantId |-> "rB"]}

OrderIds == 1..MaxOrders
Conns == 1..MaxConns

\* The calendar day with index d.
DateOf(d) == [year |-> 2024, month |-> 5, day |-> d]

Has(r, f) == f \in DOMAIN r

Get(r, f, default) == IF Has(r, f) THEN r[f] ELSE default

NoRes == [op |-> "none"]

----------------------------------------------------------------------------
(* Order schema *)

\* String.prototype.padStart(n, '0')
RECURSIVE padStart(_, _)
padStart(s, n) == IF Len(s) >= n THEN s ELSE padStart("0" \o s, n)

\* String.prototype.slice(-2)
sliceLast2(s) == IF Len(s) <= 2 THEN s ELSE SubSeq(s, Len(s) - 1, Len(s))

\* The orders the hook counts: same tenant, createdAt within the day.
countDocuments(coll, restaurantId, d) ==
    Cardinality({i \in DOMAIN coll :
        coll[i].restaurantId = restaurantId /\ coll[i].createdAt = d})

\* `${year}${month}${day}-${(count + 1).toString().padStart(4, '0')}`
FormatOrderNumber(date, n) ==
    sliceLast2(ToString(date.year)) \o padStart(ToString(date.month), 2)
        \o padStart(ToString(date.day), 2) \o "-" \o padStart(ToString(n), 4)

\* Mutant: the order number is generated again on every save.
OrderNumberHook_everySave(doc, isNew, coll, d) ==
    [f \in DOMAIN doc \cup {"orderNumber"} |->
        IF f = "orderNumber"
        THEN FormatOrderNumber(DateOf(d), countDocuments(coll, doc.restaurantId, d) + 1)
        ELSE doc[f]]

\* pre('save') #1: generate the order number of a new document that has none.
OrderNumberHook(doc, isNew, coll, d) ==
    IF isNew /\ (~Has(doc, "orderNumber") \/ Get(doc, "orderNumber", "") = "")
    THEN [f \in DOMAIN doc \cup {"orderNumber"} |->
            IF f = "orderNumber"
            THEN FormatOrderNumber(DateOf(d), countDocuments(coll, doc.restaurantId, d) + 1)
            ELSE doc[f]]
    ELSE doc

\* items.reduce((sum, item) => sum + item.price * item.quantity, 0)
RECURSIVE SumItems(_)
SumItems(items) ==
    IF items = << >> THEN 0
    ELSE items[1].price * items[1].quantity + SumItems(Tail(items))

\* Mutant: the total is floored at 0.
TotalHook_clamped(doc, modified) ==
    IF modified \cap {"items", "subtotal", "tax", "discount"} # {}
    THEN LET sub == IF "items" \in modified THEN SumItems(doc.items) ELSE doc.subtotal
             sum == sub + doc.tax - doc.discount
         IN  [f \in DOMAIN doc \cup {"subtotal", "total"} |->
                CASE f = "subtotal" -> sub
                  [] f = "total" -> IF sum < 0 THEN 0 ELSE sum
                  [] OTHER -> doc[f]]
    ELSE doc

\* pre('save') #2: recompute subtotal and total when one of items, subtotal,
\* tax, discount is modified.
TotalHook(doc, modified) ==
    IF modified \cap {"items", "subtotal", "tax", "discount"} # {}
    THEN LET sub == IF "items" \in modified THEN SumItems(doc.items) ELSE doc.subtotal
         IN  [f \in DOMAIN doc \cup {"subtotal", "total"} |->
                CASE f = "subtotal" -> sub
                  [] f = "total" -> sub + doc.tax - doc.discount
                  [] OTHER -> doc[f]]
    ELSE doc

\* Schema defaults applied when the document is constructed.
ApplyDefaults(doc) ==
    [f \in DOMAIN doc \cup {"discount", "status", "paymentStatus"} |->
        CASE f = "discount" /\ ~Has(doc, "discount") -> 0
          [] f = "status" /\ ~Has(doc, "status") -> "pending"
          [] f = "paymentStatus" /\ ~Has(doc, "paymentStatus") -> "pending"
          [] OTHER -> doc[f]]

\* Document validation of the schema paths: required, min, enum, items validator.
ValidItem(it) == it.price >= 0 /\ it.quantity >= 1

ValidateOrder(doc) ==
    /\ Has(doc, "orderNumber") /\ doc.orderNumber # ""
    /\ Has(doc, "restaurantId")
    /\ Has(doc, "createdBy")
    /\ Has(doc, "items") /\ Len(doc.items) > 0
    /\ \A k \in 1..Len(doc.items) : ValidItem(doc.items[k])
    /\ Has(doc, "subtotal") /\ doc.subtotal >= 0
    /\ Has(doc, "tax") /\ doc.tax >= 0
    /\ doc.discount >= 0
    /\ Has(doc, "total") /\ doc.total >= 0
    /\ doc.status \in OrderStatus
    /\ doc.paymentStatus \in {"pending", "paid", "failed", "refunded", "partial"}

\* Mutant: the index on orderNumber is not unique.
UniqueOrderNumber_notUnique(coll, doc) == TRUE

\* Unique index on orderNumber (Order schema and mongo-init).
UniqueOrderNumber(coll, doc) ==
    \A i \in DOMAIN coll : coll[i].orderNumber # doc.orderNumber

\* Mutant: the lookup filters on _id alone.
FindOne_anyTenant(coll, id, restaurantId) ==
    id \in DOMAIN coll

\* Order.findOne({_id, restaurantId})
FindOne(coll, id, restaurantId) ==
    id \in DOMAIN coll /\ coll[id].restaurantId = restaurantId

----------------------------------------------------------------------------
(* Requests *)

Item100 == [price |-> 100, quantity |-> 1]

\* Request bodies of POST /api/orders.  orderNumber, discount, total and
\* status are optional in a body; restaurantId may be sent and is overridden.
BodiesWith(numbers, taxes, discounts) ==
    LET base == {[items |-> <<Item100>>, subtotal |-> 0, tax |-> t] : t \in taxes}
        withTotal == base \cup {[f \in DOMAIN b \cup {"total"} |->
                        IF f = "total" THEN 0 ELSE b[f]] : b \in base}
        withDiscount == withTotal \cup UNION {{[f \in DOMAIN b \cup {"discount"} |->
                        IF f = "discount" THEN d ELSE b[f]] : d \in discounts} : b \in withTotal}
        withNumber == withDiscount \cup UNION {{[f \in DOMAIN b \cup {"orderNumber"} |->
                        IF f = "orderNumber" THEN n ELSE b[f]] : n \in numbers} : b \in withDiscount}
    IN  withNumber

OrderBodies ==
    {b \in BodiesWith({"T-1", "T-2"}, {10}, {5}) :
        Has(b, "total") /\ (Has(b, "orderNumber") => Has(b, "discount"))}
        \cup {[items |-> << >>, subtotal |-> 0, tax |-> 10, total |-> 0, orderNumber |-> "T-1"],
              [items |-> <<Item100>>, subtotal |-> 0, tax |-> 10, total |-> 0,
               orderNumber |-> "T-1", status |-> "ready", restaurantId |-> "rB"]}

\* Request bodies of PUT /api/orders/:id
OrderPatches ==
    {[discount |-> 20], [discount |-> 0 - 1], [status |-> "served"], [x \in {} |-> 0]}

\* Requested statuses of PATCH /api/orders/:id/status ("" stands for none sent)
StatusArgs == OrderStatus \cup {"", "archived"}

----------------------------------------------------------------------------
(* orderController.ts *)

\* new Order({...req.body, createdBy, restaurantId}) with timestamps
NewOrder(caller, body, d) ==
    ApplyDefaults(
        [f \in DOMAIN body \cup {"createdBy", "restaurantId", "createdAt"} |->
            CASE f = "createdBy" -> caller.id
              [] f = "restaurantId" -> caller.restaurantId
              [] f = "createdAt" -> d
              [] OTHER -> body[f]])

\* The schema's pre('save') hooks, in declaration order, on a new document.
PreSave(doc, coll, d) ==
    TotalHook(OrderNumberHook(doc, TRUE, coll, d), DOMAIN doc)

Response(op, tenant, id, arg, code, error) ==
    [op |-> op, tenant |-> tenant, id |-> id, arg |-> arg, code |-> code, error |-> error]

\* The write of a new document: the unique index on orderNumber decides.
InsertOrder(saved, tenant, arg) ==
    IF ~UniqueOrderNumber(orders, saved)
    THEN /\ res' = Response("createOrder", tenant, 0, arg, 0, "E11000 duplicate key")
         /\ UNCHANGED <<orders, nextId>>
    ELSE /\ orders' = [i \in DOMAIN orders \cup {nextId} |->
                        IF i = nextId THEN saved ELSE orders[i]]
         /\ nextId' = nextId + 1
         /\ res' = Response("createOrder", tenant, nextId, arg, 201, "")

\* Order.create handled without interruption: validation, hooks, insert.
createOrder(caller, body) ==
    LET doc == NewOrder(caller, body, today)
    IN  /\ nextId <= MaxOrders
        /\ IF ~ValidateOrder(doc)
           THEN /\ res' = Response("createOrder", caller.restaurantId, 0, DOMAIN body, 0,
                                   "ValidationError")
                /\ UNCHANGED <<orders, nextId>>
           ELSE InsertOrder(PreSave(doc, orders, today), caller.restaurantId, DOMAIN body)
        /\ UNCHANGED <<today, inflight>>

\* Order.create up to its last await before the insert: validation and the
\* hooks (the order number hook awaits countDocuments) have run.
createOrderBegin(c, caller, body) ==
    LET doc == NewOrder(caller, body, today)
    IN  /\ nextId <= MaxOrders
        /\ inflight[c] = NoRes
        /\ IF ~ValidateOrder(doc)
           THEN /\ res' = Response("createOrder", caller.restaurantId, 0, DOMAIN body, 0,
                                   "ValidationError")
                /\ UNCHANGED inflight
           ELSE /\ inflight' = [inflight EXCEPT ![c] =
                        [op |-> "createOrder", doc |-> PreSave(doc, orders, today),
                         began |-> nextId]]
                /\ UNCHANGED res
        /\ UNCHANGED <<orders, nextId, today>>

\* The insert of a request in flight, and its response.
createOrderInsert(c) ==
    /\ inflight[c] # NoRes
    /\ nextId <= MaxOrders
    /\ InsertOrder(inflight[c].doc, inflight[c].doc.restaurantId, inflight[c].began)
    /\ inflight' = [inflight EXCEPT ![c] = NoRes]
    /\ UNCHANGED today

\* Update validators (runValidators: true) on the paths the patch sets.
ValidatePatch(patch) ==
    /\ Has(patch, "discount") => patch.discount >= 0
    /\ Has(patch, "tax") => patch.tax >= 0
    /\ Has(patch, "subtotal") => patch.subtotal >= 0
    /\ Has(patch, "total") => patch.total >= 0
    /\ Has(patch, "status") => patch.status \in OrderStatus
    /\ Has(patch, "orderNumber") => patch.orderNumber # ""

\* The paths of the Order schema; a patch's other keys are dropped (strict mode).
OrderPaths ==
    {"orderNumber", "restaurantId", "items", "subtotal", "tax", "discount", "total",
     "status", "createdBy"}

\* The document after findByIdAndUpdate's $set of the patch.
ApplyPatch(doc, patch) ==
    [f \in DOMAIN doc \cup (DOMAIN patch \cap OrderPaths) |->
        IF Has(patch, f) THEN patch[f] ELSE doc[f]]

\* Mutant: only served orders are frozen.
CanUpdate_servedOnly(status) == ~(status = "served")

\* The status rule of updateOrder.
CanUpdate(status) == ~(status = "served" \/ status = "cancelled")

updateOrder(caller, id, patch) ==
    /\ IF ~FindOne(orders, id, caller.restaurantId)
       THEN /\ res' = Response("updateOrder", caller.restaurantId, id, patch, 404, "Order not found")
            /\ UNCHANGED orders
       ELSE IF ~CanUpdate(orders[id].status)
       THEN /\ res' = Response("updateOrder", caller.restaurantId, id, patch, 400,
                               "Cannot update served or cancelled orders")
            /\ UNCHANGED orders
       ELSE IF ~ValidatePatch(patch)
       THEN /\ res' = Response("updateOrder", caller.restaurantId, id, patch, 0, "ValidationError")
            /\ UNCHANGED orders
       ELSE IF Has(patch, "orderNumber")
               /\ ~UniqueOrderNumber([i \in DOMAIN orders \ {id} |-> orders[i]], patch)
       THEN /\ res' = Response("updateOrder", caller.restaurantId, id, patch, 0, "E11000 duplicate key")
            /\ UNCHANGED orders
       ELSE /\ orders' = [orders EXCEPT ![id] = ApplyPatch(orders[id], patch)]
            /\ res' = Response("updateOrder", caller.restaurantId, id, patch, 200, "")
    /\ UNCHANGED <<nextId, today, inflight>>

\* Mutant: a cancelled order may be reopened.
validTransitions_reopen(s) ==
    CASE s = "pending" -> {"confirmed", "cancelled"}
      [] s = "confirmed" -> {"preparing", "cancelled"}
      [] s = "preparing" -> {"ready", "cancelled"}
      [] s = "ready" -> {"served"}
      [] s = "served" -> {}
      [] s = "cancelled" -> {"pending"}

\* Mutant: a ready order may still be cancelled.
validTransitions_readyCancel(s) ==
    CASE s = "pending" -> {"confirmed", "cancelled"}
      [] s = "confirmed" -> {"preparing", "cancelled"}
      [] s = "preparing" -> {"ready", "cancelled"}
      [] s = "ready" -> {"served", "cancelled"}
      [] s = "served" -> {}
      [] s = "cancelled" -> {}

\* validTransitions
validTransitions(s) ==
    CASE s = "pending" -> {"confirmed", "cancelled"}
      [] s = "confirmed" -> {"preparing", "cancelled"}
      [] s = "preparing" -> {"ready", "cancelled"}
      [] s = "ready" -> {"served"}
      [] s = "served" -> {}
      [] s = "cancelled" -> {}

updateOrderStatus(caller, id, status) ==
    /\ IF status = ""
       THEN /\ res' = Response("updateOrderStatus", caller.restaurantId, id, status, 400,
                               "Status is required")
            /\ UNCHANGED orders
       ELSE IF ~FindOne(orders, id, caller.restaurantId)
       THEN /\ res' = Response("updateOrderStatus", caller.restaurantId, id, status, 404,
                               "Order not found")
            /\ UNCHANGED orders
       ELSE IF status \notin validTransitions(orders[id].status)
       THEN /\ res' = Response("updateOrderStatus", caller.restaurantId, id, status, 400,
                               "Cannot change status")
            /\ UNCHANGED orders
       ELSE \* order.status = status; order.save(): only status is modified
            /\ orders' = [orders EXCEPT ![id] =
                            TotalHook(OrderNumberHook([@ EXCEPT !.status = status],
                                                      FALSE, orders, today), {"status"})]
            /\ res' = Response("updateOrderStatus", caller.restaurantId, id, status, 200, "")
    /\ UNCHANGED <<nextId, today, inflight>>

\* Mutant: the two status tests joined by || instead of &&.
CanDelete_or(status) == ~(status # "pending" \/ status # "cancelled")

\* The status rule of deleteOrder.
CanDelete(status) == ~(status # "pending" /\ status # "cancelled")

deleteOrder(caller, id) ==
    /\ IF ~FindOne(orders, id, caller.restaurantId)
       THEN /\ res' = Response("deleteOrder", caller.restaurantId, id, "", 404, "Order not found")
            /\ UNCHANGED orders
       ELSE IF ~CanDelete(orders[id].status)
       THEN /\ res' = Response("deleteOrder", caller.restaurantId, id, "", 400,
                               "Can only delete pending or cancelled orders")
            /\ UNCHANGED orders
       ELSE /\ orders' = [i \in DOMAIN orders \ {id} |-> orders[i]]
            /\ res' = Response("deleteOrder", caller.restaurantId, id, "", 200, "")
    /\ UNCHANGED <<nextId, today, inflight>>

\* GET /api/orders/:id: the order of the caller's tenant, or 404.
getOrderById(caller, id) ==
    /\ res' = IF ~FindOne(orders, id, caller.restaurantId)
              THEN Response("getOrderById", caller.restaurantId, id, "", 404, "Order not found")
              ELSE Response("getOrderById", caller.restaurantId, id, orders[id], 200, "")
    /\ UNCHANGED orderVars

----------------------------------------------------------------------------
(* orderController.ts: the handlers split at their awaits *)

\* updateOrderStatus up to its await of order.save(): the status test, the
\* findOne and the transition test on the document that was read.
updateOrderStatusFind(c, caller, id, status) ==
    /\ inflight[c] = NoRes
    /\ IF status = ""
       THEN /\ res' = Response("updateOrderStatus", caller.restaurantId, id, status, 400,
                               "Status is required")
            /\ UNCHANGED inflight
       ELSE IF ~FindOne(orders, id, caller.restaurantId)
       THEN /\ res' = Response("updateOrderStatus", caller.restaurantId, id, status, 404,
                               "Order not found")
            /\ UNCHANGED inflight
       ELSE IF status \notin validTransitions(orders[id].status)
       THEN /\ res' = Response("updateOrderStatus", caller.restaurantId, id, status, 400,
                               "Cannot change status")
            /\ UNCHANGED inflight
       ELSE /\ inflight' = [inflight EXCEPT ![c] =
                    [op |-> "updateOrderStatus", tenant |-> caller.restaurantId, id |-> id,
                     arg |-> status]]
            /\ UNCHANGED res
    /\ UNCHANGED <<orders, nextId, today>>

\* order.save() of updateOrderStatus: an updateOne that sets the modified
\* path, status, on the persisted document; DocumentNotFoundError when the
\* document is gone.
updateOrderStatusSave(c) ==
    LET r == inflight[c]
    IN  /\ r.op = "updateOrderStatus"
        /\ IF r.id \notin DOMAIN orders
           THEN /\ res' = Response("updateOrderStatus", r.tenant, r.id, r.arg, 0,
                                   "DocumentNotFoundError")
                /\ UNCHANGED orders
           ELSE /\ orders' = [orders EXCEPT ![r.id].status = r.arg]
                /\ res' = Response("updateOrderStatus", r.tenant, r.id, r.arg, 200, "")
        /\ inflight' = [inflight EXCEPT ![c] = NoRes]
        /\ UNCHANGED <<nextId, today>>

\* updateOrder up to its await of findByIdAndUpdate: findOne and the status rule.
updateOrderFind(c, caller, id, patch) ==
    /\ inflight[c] = NoRes
    /\ IF ~FindOne(orders, id, caller.restaurantId)
       THEN /\ res' = Response("updateOrder", caller.restaurantId, id, patch, 404, "Order not found")
            /\ UNCHANGED inflight
       ELSE IF ~CanUpdate(orders[id].status)
       THEN /\ res' = Response("updateOrder", caller.restaurantId, id, patch, 400,
                               "Cannot update served or cancelled orders")
            /\ UNCHANGED inflight
       ELSE /\ inflight' = [inflight EXCEPT ![c] =
                    [op |-> "updateOrder", tenant |-> caller.restaurantId, id |-> id,
                     arg |-> patch]]
            /\ UNCHANGED res
    /\ UNCHANGED <<orders, nextId, today>>

\* Order.findByIdAndUpdate(req.params.id, req.body) of updateOrder; it
\* resolves to null, and the handler answers 200, when the document is gone.
updateOrderWrite(c) ==
    LET r == inflight[c]
    IN  /\ r.op = "updateOrder"
        /\ IF ~ValidatePatch(r.arg)
           THEN /\ res' = Response("updateOrder", r.tenant, r.id, r.arg, 0, "ValidationError")
                /\ UNCHANGED orders
           ELSE IF r.id \notin DOMAIN orders
           THEN /\ res' = Response("updateOrder", r.tenant, r.id, r.arg, 200, "")
                /\ UNCHANGED orders
           ELSE /\ orders' = [orders EXCEPT ![r.id] = ApplyPatch(orders[r.id], r.arg)]
                /\ res' = Response("updateOrder", r.tenant, r.id, r.arg, 200, "")
        /\ inflight' = [inflight EXCEPT ![c] = NoRes]
        /\ UNCHANGED <<nextId, today>>

\* deleteOrder up to its await of findByIdAndDelete: findOne and the status rule.
deleteOrderFind(c, caller, id) ==
    /\ inflight[c] = NoRes
    /\ IF ~FindOne(orders, id, caller.restaurantId)
       THEN /\ res' = Response("deleteOrder", caller.restaurantId, id, "", 404, "Order not found")
            /\ UNCHANGED inflight
       ELSE IF ~CanDelete(orders[id].status)
       THEN /\ res' = Response("deleteOrder", caller.restaurantId, id, "", 400,
                               "Can only delete pending or cancelled orders")
            /\ UNCHANGED inflight
       ELSE /\ inflight' = [inflight EXCEPT ![c] =
                    [op |-> "deleteOrder", tenant |-> caller.restaurantId, id |-> id, arg |-> ""]]
            /\ UNCHANGED res
    /\ UNCHANGED <<orders, nextId, today>>

\* Order.findByIdAndDelete(req.params.id) of deleteOrder
deleteOrderRemove(c) ==
    LET r == inflight[c]
    IN  /\ r.op = "deleteOrder"
        /\ orders' = [i \in DOMAIN orders \ {r.id} |-> orders[i]]
        /\ res' = Response("deleteOrder", r.tenant, r.id, r.arg, 200, "")
        /\ inflight' = [inflight EXCEPT ![c] = NoRes]
        /\ UNCHANGED <<nextId, today>>

----------------------------------------------------------------------------
(* Order service: the order operations exposed as functions *)

\* { success: true, data } or { success: false, error: { code } }
ServiceResponse(op, id, arg, error) ==
    Response(op, "", id, arg, 0, error)

\* updateOrder(orderId, updates) of the order service; an orderId that is
\* not an ObjectId is the id 0.
OrderService_updateOrder(orderId, updates) ==
    /\ IF orderId = 0
       THEN /\ res' = ServiceResponse("OrderService.updateOrder", orderId, updates, "INVALID_ID")
            /\ UNCHANGED orders
       ELSE IF ~ValidatePatch(updates)
               \/ (Has(updates, "orderNumber")
                    /\ ~UniqueOrderNumber([i \in DOMAIN orders \ {orderId} |-> orders[i]], updates))
       THEN /\ res' = ServiceResponse("OrderService.updateOrder", orderId, updates,
                                      "ORDER_UPDATE_ERROR")
            /\ UNCHANGED orders
       ELSE IF orderId \notin DOMAIN orders
       THEN /\ res' = ServiceResponse("OrderService.updateOrder", orderId, updates,
                                      "ORDER_NOT_FOUND")
            /\ UNCHANGED orders
       ELSE /\ orders' = [orders EXCEPT ![orderId] = ApplyPatch(orders[orderId], updates)]
            /\ res' = ServiceResponse("OrderService.updateOrder", orderId, updates, "")
    /\ UNCHANGED <<nextId, today, inflight>>

\* deleteOrder(orderId) of the order service
OrderService_deleteOrder(orderId) ==
    /\ IF orderId = 0
       THEN /\ res' = ServiceResponse("OrderService.deleteOrder", orderId, "", "INVALID_ID")
            /\ UNCHANGED orders
       ELSE IF orderId \notin DOMAIN orders
       THEN /\ res' = ServiceResponse("OrderService.deleteOrder", orderId, "", "ORDER_NOT_FOUND")
            /\ UNCHANGED orders
       ELSE /\ orders' = [i \in DOMAIN orders \ {orderId} |-> orders[i]]
            /\ res' = ServiceResponse("OrderService.deleteOrder", orderId, "", "")
    /\ UNCHANGED <<nextId, today, inflight>>

----------------------------------------------------------------------------
(* User schema, tokens (User model, jsonwebtoken) *)

UserIds == 1..MaxUsers

JWT_EXPIRE == 1             \* '24h', in days
JWT_REFRESH_EXPIRE == 7     \* '7d', in days

\* bcrypt.hash: a digest that is not the password.
Hash(password) == <<"$2b$12$", password>>

\* Mutant: every candidate password matches.
comparePassword_always(candidate, digest) == TRUE

\* bcrypt.compare(candidatePassword, this.password)
comparePassword(candidate, digest) == Hash(candidate) = digest

\* jwt.sign(payload, secret, {expiresIn})
Sign(payload, secret, expiresIn, now) ==
    [payload |-> payload, secret |-> secret, iat |-> now, exp |-> now + expiresIn]

\* jwt.verify(token, secret) returns the payload; it throws on a malformed
\* token, a wrong signature and an expired token.
Verifies(token, secret, now) ==
    /\ Has(token, "secret")
    /\ token.secret = secret
    /\ now < token.exp

\* UserSchema.methods.getSignedJwtToken
getSignedJwtToken(id, user, now) ==
    Sign([id |-> id, email |-> user.email, role |-> user.role,
          restaurantId |-> user.restaurantId], "JWT_SECRET", JWT_EXPIRE, now)

\* UserSchema.methods.getRefreshToken
getRefreshToken(id, now) ==
    Sign([id |-> id, type |-> "refresh"], "JWT_REFRESH_SECRET", JWT_REFRESH_EXPIRE, now)

\* Mutant: a payload without id is looked up by its userId.
FindUserById_userId(coll, payload) ==
    IF Has(payload, "id") /\ payload.id \in DOMAIN coll THEN {payload.id}
    ELSE IF Has(payload, "userId") THEN {i \in DOMAIN coll : ToString(i) = payload.userId}
    ELSE {}

\* User.findById(id); the id a payload does not carry finds nothing.
FindUserById(coll, payload) ==
    IF Has(payload, "id") /\ payload.id \in DOMAIN coll THEN {payload.id} ELSE {}

\* Mutant: the lookup does not filter on isActive.
findByCredentials_anyUser(coll, email, password) ==
    {i \in DOMAIN coll :
        coll[i].email = email /\ comparePassword(password, coll[i].password)}

\* UserSchema.statics.findByCredentials: the active identity with this email
\* whose password matches (the empty set stands for 'Invalid credentials').
findByCredentials(coll, email, password) ==
    {i \in DOMAIN coll :
        /\ coll[i].email = email /\ coll[i].isActive
        /\ comparePassword(password, coll[i].password)}

AuthResponse(op, arg, code, error) ==
    [op |-> op, arg |-> arg, code |-> code, error |-> error]

----------------------------------------------------------------------------
(* authService.ts *)

\* Document validation of a new user: the role enum, the tenant every role
\* but admin requires, the password length.
ValidateUser(userData) ==
    /\ userData.role \in {"admin", "manager", "waiter", "kitchen", "customer"}
    /\ userData.role # "admin" => Has(userData, "restaurantId")
    /\ Len(userData.password) >= 8

\* Mutant: only the email is looked up.
register_emailOnly(userData) ==
    LET id == Cardinality(DOMAIN users) + 1
        existing == {i \in DOMAIN users :
                        users[i].email = userData.email}
        user == [username |-> userData.username, email |-> userData.email,
                 password |-> Hash(userData.password), role |-> userData.role,
                 restaurantId |-> Get(userData, "restaurantId", ""), isActive |-> TRUE,
                 lastLogin |-> 0 - 1]
    IN  /\ Cardinality(DOMAIN users) < MaxUsers
        /\ IF existing # {}
           THEN /\ res' = AuthResponse("register", userData, 0,
                                       "User with this email or username already exists")
                /\ UNCHANGED <<users, issued>>
           ELSE IF ~ValidateUser(userData)
           THEN /\ res' = AuthResponse("register", userData, 0, "ValidationError")
                /\ UNCHANGED <<users, issued>>
           ELSE /\ users' = [i \in DOMAIN users \cup {id} |-> IF i = id THEN user ELSE users[i]]
                /\ issued' = issued \cup {getSignedJwtToken(id, user, clock),
                                          getRefreshToken(id, clock)}
                /\ res' = AuthResponse("register", userData, 0, "")
        /\ UNCHANGED clock

\* AuthService.register
register(userData) ==
    LET id == Cardinality(DOMAIN users) + 1
        existing == {i \in DOMAIN users :
                        users[i].email = userData.email \/ users[i].username = userData.username}
        user == [username |-> userData.username, email |-> userData.email,
                 password |-> Hash(userData.password), role |-> userData.role,
                 restaurantId |-> Get(userData, "restaurantId", ""), isActive |-> TRUE,
                 lastLogin |-> 0 - 1]
    IN  /\ Cardinality(DOMAIN users) < MaxUsers
        /\ IF existing # {}
           THEN /\ res' = AuthResponse("register", userData, 0,
                                       "User with this email or username already exists")
                /\ UNCHANGED <<users, issued>>
           ELSE IF ~ValidateUser(userData)
           THEN /\ res' = AuthResponse("register", userData, 0, "ValidationError")
                /\ UNCHANGED <<users, issued>>
           ELSE /\ users' = [i \in DOMAIN users \cup {id} |-> IF i = id THEN user ELSE users[i]]
                /\ issued' = issued \cup {getSignedJwtToken(id, user, clock),
                                          getRefreshToken(id, clock)}
                /\ res' = AuthResponse("register", userData, 0, "")
        /\ UNCHANGED clock

\* AuthService.login
login(credentials) ==
    LET found == findByCredentials(users, credentials.email, credentials.password)
    IN  /\ IF credentials.email = "" \/ credentials.password = ""
           THEN /\ res' = AuthResponse("login", credentials, 0, "Email and password are required")
                /\ UNCHANGED <<users, issued>>
           ELSE IF found = {}
           THEN /\ res' = AuthResponse("login", credentials, 0, "Invalid credentials")
                /\ UNCHANGED <<users, issued>>
           ELSE \E id \in found :
                /\ users' = [users EXCEPT ![id].lastLogin = clock]
                /\ issued' = issued \cup {getSignedJwtToken(id, users[id], clock),
                                          getRefreshToken(id, clock)}
                /\ res' = AuthResponse("login", credentials, 0, "")
        /\ UNCHANGED clock

\* The empty string where a token is expected.
EmptyToken == [empty |-> TRUE, payload |-> << >>]

\* Mutant: the type carried by the token is not tested.
refreshToken_noTypeTest(token) ==
    LET found == FindUserById(users, token.payload)
    IN  /\ IF Has(token, "empty")
           THEN res' = AuthResponse("refreshToken", token, 0, "Refresh token is required")
                /\ UNCHANGED issued
           ELSE IF ~Verifies(token, "JWT_REFRESH_SECRET", clock)
           THEN res' = AuthResponse("refreshToken", token, 0, "JsonWebTokenError")
                /\ UNCHANGED issued
           ELSE IF found = {} \/ \E id \in found : ~users[id].isActive
           THEN res' = AuthResponse("refreshToken", token, 0, "User not found or inactive")
                /\ UNCHANGED issued
           ELSE \E id \in found :
                /\ issued' = issued \cup {getSignedJwtToken(id, users[id], clock),
                                          getRefreshToken(id, clock)}
                /\ res' = AuthResponse("refreshToken", token, 0, "")
        /\ UNCHANGED <<users, clock>>

\* AuthService.refreshToken
refreshToken(token) ==
    LET found == FindUserById(users, token.payload)
    IN  /\ IF Has(token, "empty")
           THEN res' = AuthResponse("refreshToken", token, 0, "Refresh token is required")
                /\ UNCHANGED issued
           ELSE IF ~Verifies(token, "JWT_REFRESH_SECRET", clock)
           THEN res' = AuthResponse("refreshToken", token, 0, "JsonWebTokenError")
                /\ UNCHANGED issued
           ELSE IF ~(Has(token.payload, "type") /\ token.payload.type = "refresh")
           THEN res' = AuthResponse("refreshToken", token, 0, "Invalid token type")
                /\ UNCHANGED issued
           ELSE IF found = {} \/ \E id \in found : ~users[id].isActive
           THEN res' = AuthResponse("refreshToken", token, 0, "User not found or inactive")
                /\ UNCHANGED issued
           ELSE \E id \in found :
                /\ issued' = issued \cup {getSignedJwtToken(id, users[id], clock),
                                          getRefreshToken(id, clock)}
                /\ res' = AuthResponse("refreshToken", token, 0, "")
        /\ UNCHANGED <<users, clock>>

\* AuthService.deactivateUser
deactivateUser(userId) ==
    /\ IF userId \notin DOMAIN users
       THEN /\ res' = AuthResponse("deactivateUser", userId, 0, "User not found")
            /\ UNCHANGED users
       ELSE /\ users' = [users EXCEPT ![userId].isActive = FALSE]
            /\ res' = AuthResponse("deactivateUser", userId, 0, "")
    /\ UNCHANGED <<issued, clock>>

\* AuthService.activateUser
activateUser(userId) ==
    /\ IF userId \notin DOMAIN users
       THEN /\ res' = AuthResponse("activateUser", userId, 0, "User not found")
            /\ UNCHANGED users
       ELSE /\ users' = [users EXCEPT ![userId].isActive = TRUE]
            /\ res' = AuthResponse("activateUser", userId, 0, "")
    /\ UNCHANGED <<issued, clock>>

\* UserSchema.password: required, minlength 8 (checked when the path is saved)
ValidPassword(password) == Len(password) >= 8

\* Mutant: the current password is not compared.
changePassword_noCurrentTest(userId, currentPassword, newPassword) ==
    LET arg == [userId |-> userId, current |-> currentPassword, new |-> newPassword]
    IN  /\ IF userId \notin DOMAIN users
           THEN /\ res' = AuthResponse("changePassword", arg, 0, "User not found")
                /\ UNCHANGED users
           ELSE IF ~ValidPassword(newPassword)
           THEN /\ res' = AuthResponse("changePassword", arg, 0, "ValidationError")
                /\ UNCHANGED users
           ELSE /\ users' = [users EXCEPT ![userId].password = Hash(newPassword)]
                /\ res' = AuthResponse("changePassword", arg, 0, "")
        /\ UNCHANGED <<issued, clock>>

\* AuthService.changePassword: user.password = newPassword; user.save()
\* validates the modified path, then the pre('save') hook hashes it.
changePassword(userId, currentPassword, newPassword) ==
    LET arg == [userId |-> userId, current |-> currentPassword, new |-> newPassword]
    IN  /\ IF userId \notin DOMAIN users
           THEN /\ res' = AuthResponse("changePassword", arg, 0, "User not found")
                /\ UNCHANGED users
           ELSE IF ~comparePassword(currentPassword, users[userId].password)
           THEN /\ res' = AuthResponse("changePassword", arg, 0, "Current password is incorrect")
                /\ UNCHANGED users
           ELSE IF ~ValidPassword(newPassword)
           THEN /\ res' = AuthResponse("changePassword", arg, 0, "ValidationError")
                /\ UNCHANGED users
           ELSE /\ users' = [users EXCEPT ![userId].password = Hash(newPassword)]
                /\ res' = AuthResponse("changePassword", arg, 0, "")
        /\ UNCHANGED <<issued, clock>>

----------------------------------------------------------------------------
(* auth middleware *)

\* The Authorization header as its space-separated words; << >> is no header.
\* if (authorization && authorization.startsWith('Bearer')) token = authorization.split(' ')[1]
BearerToken(header) ==
    IF Len(header) >= 1 /\ Len(header[1]) >= 6 /\ SubSeq(header[1], 1, 6) = "Bearer"
    THEN IF Len(header) >= 2 /\ ~Has(header[2], "empty") THEN {header[2]} ELSE {}
    ELSE {}

\* Mutant: the identity's isActive flag is not tested.
authOutcome_noActiveTest(header, coll, now) ==
    LET tokens == BearerToken(header)
    IN  IF tokens = {} THEN "NO_TOKEN"
        ELSE LET token == CHOOSE t \in tokens : TRUE
             IN  IF ~Verifies(token, "JWT_SECRET", now) THEN "INVALID_TOKEN"
                 ELSE IF FindUserById(coll, token.payload) = {} THEN "USER_NOT_FOUND"
                 ELSE "next"

\* authMiddleware: the code of its 401 answer, or "next".
authOutcome(header, coll, now) ==
    LET tokens == BearerToken(header)
    IN  IF tokens = {} THEN "NO_TOKEN"
        ELSE LET token == CHOOSE t \in tokens : TRUE
             IN  IF ~Verifies(token, "JWT_SECRET", now) THEN "INVALID_TOKEN"
                 ELSE LET found == FindUserById(coll, token.payload)
                      IN  IF found = {} THEN "USER_NOT_FOUND"
                          ELSE IF \E id \in found : ~coll[id].isActive THEN "USER_INACTIVE"
                          ELSE "next"

authMiddleware(header) ==
    LET outcome == authOutcome(header, users, clock)
    IN  /\ res' = AuthResponse("authMiddleware", header,
                               IF outcome = "next" THEN 0 ELSE 401, outcome)
        /\ UNCHANGED <<users, issued, clock>>

----------------------------------------------------------------------------
(* Permission engine *)

ROLE_HIERARCHY ==
    [customer |-> 1, kitchen |-> 2, waiter |-> 3, manager |-> 4, admin |-> 5]

ROLE_PERMISSIONS ==
    [customer |-> <<"order:create", "order:view:own", "menu:view", "profile:view:own",
                    "profile:update:own">>,
     kitchen |-> <<"order:view", "order:update:status", "kitchen:view", "kitchen:update",
                   "menu:view", "inventory:view">>,
     waiter |-> <<"order:create", "order:view", "order:update", "order:delete", "table:view",
                  "table:update", "menu:view", "customer:view", "customer:create",
                  "payment:process", "inventory:view">>,
     manager |-> <<"order:*", "table:*", "menu:*", "customer:*", "payment:*", "inventory:*",
                   "employee:view", "employee:create", "employee:update", "analytics:view",
                   "reports:view", "settings:view", "settings:update">>,
     admin |-> <<"*">>]

\* Array.prototype.includes
includes(arr, x) == \E k \in 1..Len(arr) : arr[k] = x

\* The index of the first ':' of s at or after k, 0 when there is none.
RECURSIVE indexOfColon(_, _)
indexOfColon(s, k) ==
    IF k > Len(s) THEN 0
    ELSE IF SubSeq(s, k, k) = ":" THEN k
    ELSE indexOfColon(s, k + 1)

\* The index of the last ':' of s at or before k, 0 when there is none.
RECURSIVE lastIndexOfColon(_, _)
lastIndexOfColon(s, k) ==
    IF k < 1 THEN 0
    ELSE IF SubSeq(s, k, k) = ":" THEN k
    ELSE lastIndexOfColon(s, k - 1)

\* Mutant: the resource is everything before the last colon.
splitFirst_lastColon(s) ==
    LET k == lastIndexOfColon(s, Len(s))
    IN  IF k = 0 THEN s ELSE SubSeq(s, 1, k - 1)

\* permission.split(':')[0]
splitFirst(s) ==
    LET k == indexOfColon(s, 1)
    IN  IF k = 0 THEN s ELSE SubSeq(s, 1, k - 1)

\* Mutant: the caller's own permissions are matched as resource wildcards too.
hasPermission_extrasWildcard(userRole, permission, userPermissions) ==
    LET rolePermissions ==
            IF userRole \in DOMAIN ROLE_PERMISSIONS THEN ROLE_PERMISSIONS[userRole] ELSE << >>
        resource == splitFirst(permission)
    IN  IF userRole = "admin" THEN TRUE
        ELSE IF includes(rolePermissions, "*") THEN TRUE
        ELSE IF includes(rolePermissions, permission) THEN TRUE
        ELSE IF includes(rolePermissions, resource \o ":*") THEN TRUE
        ELSE IF userPermissions.defined
                /\ (includes(userPermissions.list, permission)
                    \/ includes(userPermissions.list, resource \o ":*")) THEN TRUE
        ELSE FALSE

\* hasPermission(userRole, permission, userPermissions?)
hasPermission(userRole, permission, userPermissions) ==
    LET rolePermissions ==
            IF userRole \in DOMAIN ROLE_PERMISSIONS THEN ROLE_PERMISSIONS[userRole] ELSE << >>
        resource == splitFirst(permission)
    IN  IF userRole = "admin" THEN TRUE
        ELSE IF includes(rolePermissions, "*") THEN TRUE
        ELSE IF includes(rolePermissions, permission) THEN TRUE
        ELSE IF includes(rolePermissions, resource \o ":*") THEN TRUE
        ELSE IF userPermissions.defined /\ includes(userPermissions.list, permission) THEN TRUE
        ELSE FALSE

----------------------------------------------------------------------------
(* Authorization gates of the auth middleware *)

\* ROLE_HIERARCHY[role] || 0
roleLevel(role) == IF role \in DOMAIN ROLE_HIERARCHY THEN ROLE_HIERARCHY[role] ELSE 0

SENSITIVE_OPERATIONS ==
    {"user:delete", "payment:refund", "inventory:delete", "settings:security", "data:export",
     "system:backup"}

\* res.status(code).json({success: false, error: {code, message}}), or next()
GateResponse(op, arg, code, error, message) ==
    [op |-> op, arg |-> arg, code |-> code, error |-> error, message |-> message]

Proceed(op, arg) == GateResponse(op, arg, 0, "next", "")

NoUser(op, arg) == GateResponse(op, arg, 401, "NO_USER", "User not authenticated")

\* Mutant: a caller whose role is not listed is let through.
authorizeOutcome_open(roles) ==
    IF ~Has(req, "user") THEN NoUser("authorize", roles)
    ELSE Proceed("authorize", roles)

\* What authorize(...roles) answers to the request.
authorizeOutcome(roles) ==
    IF ~Has(req, "user") THEN NoUser("authorize", roles)
    ELSE IF req.user.role \notin roles
    THEN GateResponse("authorize", roles, 403, "INSUFFICIENT_PERMISSIONS",
            "User role " \o req.user.role \o " is not authorized to access this route")
    ELSE Proceed("authorize", roles)

\* authorize(...roles)
authorize(roles) ==
    /\ res' = authorizeOutcome(roles)
    /\ UNCHANGED req

\* Mutant: the caller's level must exceed the required one.
requireRoleLevel_strict(minimumRole) ==
    /\ res' = IF ~Has(req, "user") THEN NoUser("requireRoleLevel", minimumRole)
              ELSE IF roleLevel(req.user.role) <= roleLevel(minimumRole)
              THEN GateResponse("requireRoleLevel", minimumRole, 403, "INSUFFICIENT_ROLE_LEVEL",
                        "Role '" \o minimumRole \o "' or higher required to access this resource")
              ELSE Proceed("requireRoleLevel", minimumRole)
    /\ UNCHANGED req

\* requireRoleLevel(minimumRole)
requireRoleLevel(minimumRole) ==
    /\ res' = IF ~Has(req, "user") THEN NoUser("requireRoleLevel", minimumRole)
              ELSE IF roleLevel(req.user.role) < roleLevel(minimumRole)
              THEN GateResponse("requireRoleLevel", minimumRole, 403, "INSUFFICIENT_ROLE_LEVEL",
                        "Role '" \o minimumRole \o "' or higher required to access this resource")
              ELSE Proceed("requireRoleLevel", minimumRole)
    /\ UNCHANGED req

\* Mutant: only admin bypasses the ownership test.
OwnershipBypass_adminOnly(role) == role = "admin"

\* ['admin', 'manager'].includes(req.user.role)
OwnershipBypass(role) == role \in {"admin", "manager"}

\* requireOwnership(resourceIdParam = 'id', userIdField = '_id')
requireOwnership(resourceIdParam, userIdField) ==
    /\ res' = IF ~Has(req, "user") THEN NoUser("requireOwnership", resourceIdParam)
              ELSE IF OwnershipBypass(req.user.role)
              THEN Proceed("requireOwnership", resourceIdParam)
              ELSE IF Has(req.params, resourceIdParam) /\ Has(req.user, userIdField)
              THEN IF req.params[resourceIdParam] # ToString(req.user[userIdField])
                   THEN GateResponse("requireOwnership", resourceIdParam, 403,
                            "RESOURCE_ACCESS_DENIED", "You can only access your own resources")
                   ELSE Proceed("requireOwnership", resourceIdParam)
              ELSE IF Has(req.params, resourceIdParam) \/ Has(req.user, userIdField)
              THEN GateResponse("requireOwnership", resourceIdParam, 403,
                        "RESOURCE_ACCESS_DENIED", "You can only access your own resources")
              ELSE Proceed("requireOwnership", resourceIdParam)
    /\ UNCHANGED req

\* Mutant: the tenant is filled in only when the caller sent none.
ScopedQuery_keepSent(query, user) ==
    IF Has(query, "restaurantId") THEN query
    ELSE [f \in DOMAIN query \cup {"restaurantId"} |->
            IF f = "restaurantId" THEN user.restaurantId ELSE query[f]]

\* req.query.restaurantId = req.user.restaurantId
ScopedQuery(query, user) ==
    [f \in DOMAIN query \cup {"restaurantId"} |->
        IF f = "restaurantId" THEN user.restaurantId ELSE query[f]]

\* requireSameRestaurant
requireSameRestaurant ==
    IF ~Has(req, "user")
    THEN /\ res' = NoUser("requireSameRestaurant", req.query)
         /\ UNCHANGED req
    ELSE IF req.user.role = "admin"
    THEN /\ res' = Proceed("requireSameRestaurant", req.query)
         /\ UNCHANGED req
    ELSE /\ req' = [req EXCEPT !.query = ScopedQuery(req.query, req.user)]
         /\ res' = Proceed("requireSameRestaurant", req.query)

\* Mutant: the operation the token is bound to is not compared.
additionalAuthError_anyOperation(token, user, operation, now) ==
    IF Has(token, "malformed") THEN "jwt malformed"
    ELSE IF token.secret # "JWT_SECRET" THEN "invalid signature"
    ELSE IF ~Verifies(token, "JWT_SECRET", now \div 1000) THEN "jwt expired"
    ELSE IF ~(Has(token.payload, "userId") /\ token.payload.userId = ToString(user._id))
    THEN "Invalid additional auth token"
    ELSE IF now - token.iat * 1000 > 5 * 60 * 1000 THEN "Additional auth token expired"
    ELSE ""

\* The try block of requireAdditionalAuth: the message of the error it throws,
\* "" when it throws none.  `now` is Date.now(), in milliseconds.
additionalAuthError(token, user, operation, now) ==
    IF Has(token, "malformed") THEN "jwt malformed"
    ELSE IF token.secret # "JWT_SECRET" THEN "invalid signature"
    ELSE IF ~Verifies(token, "JWT_SECRET", now \div 1000) THEN "jwt expired"
    ELSE IF \/ ~(Has(token.payload, "userId") /\ token.payload.userId = ToString(user._id))
            \/ ~(Has(token.payload, "operation") /\ token.payload.operation = operation)
    THEN "Invalid additional auth token"
    ELSE IF now - token.iat * 1000 > 5 * 60 * 1000 THEN "Additional auth token expired"
    ELSE ""

\* Mutant: the response carries the message of the error that was caught.
additionalAuthCatch_leak(arg, error) ==
    GateResponse("requireAdditionalAuth", arg, 403, "INVALID_ADDITIONAL_AUTH", error)

\* The catch block of requireAdditionalAuth.
additionalAuthCatch(arg, error) ==
    GateResponse("requireAdditionalAuth", arg, 403, "INVALID_ADDITIONAL_AUTH",
                 "Invalid or expired additional authentication token")

\* requireAdditionalAuth(operation), handled at time `now`
requireAdditionalAuth(operation, now) ==
    LET arg == [operation |-> operation, now |-> now]
        presented == Has(req.headers, "x-additional-auth")
                        /\ ~Has(req.headers["x-additional-auth"], "empty")
    IN  /\ res' = IF ~Has(req, "user") THEN NoUser("requireAdditionalAuth", arg)
                  ELSE IF operation \notin SENSITIVE_OPERATIONS
                  THEN Proceed("requireAdditionalAuth", arg)
                  ELSE IF ~presented
                  THEN GateResponse("requireAdditionalAuth", arg, 403, "ADDITIONAL_AUTH_REQUIRED",
                            "This operation requires additional authentication")
                  ELSE LET error == additionalAuthError(req.headers["x-additional-auth"],
                                                        req.user, operation, now)
                       IN  IF error # "" THEN additionalAuthCatch(arg, error)
                           ELSE Proceed("requireAdditionalAuth", arg)
        /\ UNCHANGED req

\* The sensitiveActions list of AuthService.requireAdditionalAuth
sensitiveActions ==
    {"delete_user", "modify_permissions", "access_financial_reports", "modify_system_settings",
     "export_customer_data"}

\* Mutant: the role of the identity is not looked at.
AdditionalAuthRequired_anyRole(coll, userId, action) ==
    IF ~Has(userId, "id") \/ userId.id \notin DOMAIN coll THEN TRUE
    ELSE action \in sensitiveActions

\* What AuthService.requireAdditionalAuth returns.  A malformed id makes
\* User.findById throw, an unknown one makes the method throw; the catch
\* returns true for both.
AdditionalAuthRequired(coll, userId, action) ==
    IF ~Has(userId, "id") \/ userId.id \notin DOMAIN coll THEN TRUE
    ELSE action \in sensitiveActions /\ coll[userId.id].role \in {"admin", "manager"}

\* AuthService.requireAdditionalAuth(userId, action)
AuthService_requireAdditionalAuth(userId, action) ==
    /\ res' = [op |-> "AuthService.requireAdditionalAuth",
               arg |-> [userId |-> userId, action |-> action], code |-> 0, error |-> "",
               result |-> AdditionalAuthRequired(users, userId, action)]
    /\ UNCHANGED req

\* The roleHierarchy literal of AuthService.validateRole
roleHierarchy ==
    [customer |-> 1, kitchen |-> 2, waiter |-> 3, manager |-> 4, admin |-> 5]

\* Mutant: the caller's level must exceed the required one.
validateRoleResult_strict(token, requiredRole, now) ==
    IF ~Verifies(token, "JWT_SECRET", now) THEN FALSE
    ELSE IF ~Has(token.payload, "role") \/ token.payload.role \notin DOMAIN roleHierarchy
    THEN FALSE
    ELSE IF requiredRole \notin DOMAIN roleHierarchy THEN FALSE
    ELSE roleHierarchy[token.payload.role] > roleHierarchy[requiredRole]

\* What AuthService.validateRole returns: false from the catch when jwt.verify
\* throws; a level that is undefined makes the comparison false.
validateRoleResult(token, requiredRole, now) ==
    IF ~Verifies(token, "JWT_SECRET", now) THEN FALSE
    ELSE IF ~Has(token.payload, "role") \/ token.payload.role \notin DOMAIN roleHierarchy
    THEN FALSE
    ELSE IF requiredRole \notin DOMAIN roleHierarchy THEN FALSE
    ELSE roleHierarchy[token.payload.role] >= roleHierarchy[requiredRole]

\* AuthService.validateRole(token, requiredRole)
validateRole(token, requiredRole) ==
    /\ res' = [op |-> "AuthService.validateRole",
               arg |-> [token |-> token, requiredRole |-> requiredRole], code |-> 0,
               error |-> "", result |-> validateRoleResult(token, requiredRole, clock)]
    /\ UNCHANGED req

----------------------------------------------------------------------------
(* Requests handled one at a time *)

NoCall == [done |-> FALSE]

\* A request with nothing attached.
NoReq == [params |-> [x \in {} |-> 0], query |-> [x \in {} |-> 0], headers |-> [x \in {} |-> 0]]

Init ==
    /\ orders = [i \in {} |-> 0]
    /\ nextId = 1
    /\ today = 1
    /\ inflight = [c \in Conns |-> NoRes]
    /\ users = [i \in {} |-> 0]
    /\ issued = {}
    /\ clock = 0
    /\ perm = NoCall
    /\ req = NoReq
    /\ res = NoRes

CreateOrder ==
    /\ \E caller \in Callers, body \in OrderBodies : createOrder(caller, body)
    /\ UNCHANGED <<authVars, perm, req>>

UpdateOrder ==
    /\ \E caller \in Callers, id \in OrderIds, patch \in OrderPatches :
            updateOrder(caller, id, patch)
    /\ UNCHANGED <<authVars, perm, req>>

UpdateOrderStatus ==
    /\ \E caller \in Callers, id \in OrderIds, status \in StatusArgs :
            updateOrderStatus(caller, id, status)
    /\ UNCHANGED <<authVars, perm, req>>

DeleteOrder ==
    /\ \E caller \in Callers, id \in OrderIds : deleteOrder(caller, id)
    /\ UNCHANGED <<authVars, perm, req>>

Next == CreateOrder \/ UpdateOrder \/ UpdateOrderStatus \/ DeleteOrder

Spec == Init /\ [][Next]_vars

----------------------------------------------------------------------------
(* Requests interleaved at their awaits *)

ConcBodies == {b \in BodiesWith({"T-1", "T-2"}, {10}, {}) : Has(b, "total")}

CreateOrderBegin ==
    /\ \E c \in Conns, caller \in Callers, body \in ConcBodies :
            createOrderBegin(c, caller, body)
    /\ UNCHANGED <<authVars, perm, req>>

CreateOrderInsert ==
    /\ \E c \in Conns : createOrderInsert(c)
    /\ UNCHANGED <<authVars, perm, req>>

NextDay ==
    /\ today < MaxDay
    /\ today' = today + 1
    /\ UNCHANGED <<orders, nextId, inflight, res, authVars, perm, req>>

NextConc == CreateOrderBegin \/ CreateOrderInsert \/ DeleteOrder \/ NextDay

SpecConc == Init /\ [][NextConc]_vars

----------------------------------------------------------------------------
(* Order lifecycle properties *)

\* The status table of the specification (section 4.3).
TransitionTable ==
    {<<"pending", "confirmed">>, <<"pending", "cancelled">>,
     <<"confirmed", "preparing">>, <<"confirmed", "cancelled">>,
     <<"preparing", "ready">>, <<"preparing", "cancelled">>,
     <<"ready", "served">>}

\* The request answered by this step is `op`, on an order of the caller's tenant.
Answers(op) ==
    /\ res'.op = op
    /\ res'.id \in DOMAIN orders
    /\ orders[res'.id].restaurantId = res'.tenant

C2_UpdateTerminalRejected ==
    [][(Answers("updateOrder") /\ orders[res'.id].status \in {"served", "cancelled"}) =>
        /\ res'.code = 400
        /\ res'.error = "Cannot update served or cancelled orders"
        /\ orders' = orders]_vars

\* A cancelled order was sent an empty patch and the request was rejected.
C2_Witness ==
    /\ res.op = "updateOrder"
    /\ res.code = 400
    /\ res.arg = [x \in {} |-> 0]
    /\ res.id \in DOMAIN orders
    /\ orders[res.id].status = "cancelled"
    /\ orders[res.id].restaurantId = res.tenant

\* C3: deleteOrder removes the order exactly when it exists in the caller's
\* tenant with status pending or cancelled; in status confirmed, preparing,
\* ready or served it answers 400 and the collection is unchanged.
C3_DeleteRule ==
    [][res'.op = "deleteOrder" =>
        /\ (res'.id \in DOMAIN orders /\ res'.id \notin DOMAIN orders')
              <=> (/\ res'.id \in DOMAIN orders
                   /\ orders[res'.id].restaurantId = res'.tenant
                   /\ orders[res'.id].status \in {"pending", "cancelled"})
        /\ res'.id \in DOMAIN orders'
              => orders' = orders
        /\ res'.id \notin DOMAIN orders'
              => orders' = [i \in DOMAIN orders \ {res'.id} |-> orders[i]]
        /\ (/\ res'.id \in DOMAIN orders
            /\ orders[res'.id].restaurantId = res'.tenant
            /\ orders[res'.id].status \in {"confirmed", "preparing", "ready", "served"})
              => res'.code = 400]_vars

\* A ready order was asked to be deleted and the request was rejected.
C3_Witness ==
    /\ res.op = "deleteOrder"
    /\ res.code = 400
    /\ res.id \in DOMAIN orders
    /\ orders[res.id].status = "ready"
    /\ orders[res.id].restaurantId = res.tenant

\* C4: every persisted order has total = subtotal + tax - discount.
C4_TotalInvariant ==
    \A i \in DOMAIN orders :
        orders[i].total = orders[i].subtotal + orders[i].tax - orders[i].discount

\* C5: no two persisted orders of one tenant created on the same calendar day
\* carry the same order number, under any interleaving of createOrder requests.
C5_UniquePerTenantDay ==
    \A i, j \in DOMAIN orders :
        (i # j /\ orders[i].restaurantId = orders[j].restaurantId
               /\ orders[i].createdAt = orders[j].createdAt)
            => orders[i].orderNumber # orders[j].orderNumber

\* Two requests of one tenant and day carried the same order number and were
\* both past their hooks before either was inserted; one was inserted and the
\* other was refused by the index.
C5_Witness ==
    /\ res.op = "createOrder"
    /\ res.error = "E11000 duplicate key"
    /\ \E i \in DOMAIN orders :
        /\ i >= res.arg
        /\ orders[i].restaurantId = res.tenant
        /\ orders[i].createdAt = today

\* C6: no createOrder request fails because of an order-number collision.
C6_NoCollisionFailure ==
    ~(res.op = "createOrder" /\ res.error = "E11000 duplicate key")

\* C7: requests handled one at a time, no deletion, no number supplied: the
\* k-th order of a tenant on a day is persisted with number YYMMDD-NNNN, NNNN = k.
C7_SequentialNumbers ==
    (/\ res.op = "createOrder"
     /\ "orderNumber" \notin res.arg
     /\ {"items", "subtotal", "tax", "total"} \subseteq res.arg)
        => /\ res.code = 201
           /\ res.id \in DOMAIN orders
           /\ orders[res.id].orderNumber =
                FormatOrderNumber(DateOf(today),
                    countDocuments(orders, res.tenant, today))

----------------------------------------------------------------------------
(* Authentication: service calls and authenticated requests, one at a time *)

UserData ==
    {[username |-> u[1], email |-> u[2], password |-> "Passw0rd!", role |-> "waiter",
      restaurantId |-> "rA"] :
        u \in {<<"alice", "a@x.io">>, <<"bob", "b@x.io">>, <<"bob", "a@x.io">>}}

Credentials ==
    {[email |-> "a@x.io", password |-> "Passw0rd!"], [email |-> "b@x.io", password |-> "Passw0rd!"],
     [email |-> "a@x.io", password |-> "wrong"], [email |-> "", password |-> "Passw0rd!"],
     [email |-> "a@x.io", password |-> "NewPass456!"]}

\* Tokens a client can present: what the service signed, an unparsable
\* string, a token signed with another key, and a step-up token of the
\* deployment (signed with JWT_SECRET, carrying userId and operation).
Malformed == [malformed |-> TRUE]
Forged == [payload |-> [id |-> 1], secret |-> "other", iat |-> 0, exp |-> 9]
StepUp == [payload |-> [userId |-> 1, operation |-> "user:delete"], secret |-> "JWT_SECRET",
           iat |-> 0, exp |-> 9]

\* A token signed with the refresh key that carries no type: an access token
\* of a deployment whose JWT_SECRET and JWT_REFRESH_SECRET are the same key.
Untyped == [payload |-> [id |-> 1, role |-> "waiter"], secret |-> "JWT_REFRESH_SECRET",
            iat |-> 0, exp |-> 9]

Presentable == issued \cup {Malformed, Forged, StepUp, Untyped}

Headers ==
    {<< >>, <<"Bearer">>, <<"Bearer", EmptyToken>>} \cup {<<"Bearer", t>> : t \in Presentable}
        \cup {<<"Basic", t>> : t \in issued}

Register ==
    /\ \E userData \in UserData : register(userData)
    /\ UNCHANGED <<orderVars, perm, req>>

Login ==
    /\ \E credentials \in Credentials : login(credentials)
    /\ UNCHANGED <<orderVars, perm, req>>

RefreshToken ==
    /\ \E token \in Presentable \cup {EmptyToken} : refreshToken(token)
    /\ UNCHANGED <<orderVars, perm, req>>

DeactivateUser ==
    /\ \E userId \in UserIds : deactivateUser(userId)
    /\ UNCHANGED <<orderVars, perm, req>>

ActivateUser ==
    /\ \E userId \in UserIds : activateUser(userId)
    /\ UNCHANGED <<orderVars, perm, req>>

AuthMiddleware ==
    /\ \E header \in Headers : authMiddleware(header)
    /\ UNCHANGED <<orderVars, perm, req>>

Tick ==
    /\ clock < MaxClock
    /\ clock' = clock + 1
    /\ UNCHANGED <<orderVars, users, issued, perm, req, res>>

NextAuth ==
    Register \/ Login \/ RefreshToken \/ DeactivateUser \/ ActivateUser \/ AuthMiddleware \/ Tick

SpecAuth == Init /\ [][NextAuth]_vars

----------------------------------------------------------------------------
(* Credentials: registration, login, password change, deactivation *)

CurrentPasswordArgs == {"Passw0rd!", "wrong"}

NewPasswordArgs == {"NewPass456!", "Passw0rd!", "short"}

ChangePassword ==
    /\ \E userId \in UserIds, currentPassword \in CurrentPasswordArgs,
          newPassword \in NewPasswordArgs :
            changePassword(userId, currentPassword, newPassword)
    /\ UNCHANGED <<orderVars, perm, req>>

NextCred == Register \/ Login \/ ChangePassword \/ DeactivateUser

SpecCred == Init /\ [][NextCred]_vars

----------------------------------------------------------------------------
(* Permission checks: one call of hasPermission per behaviour *)

UserRole == {"admin", "manager", "waiter", "kitchen", "customer"}

\* Roles passed to the engine: the enumerated ones and one that is not.
RoleArgs == UserRole \cup {"guest"}

PermissionArgs ==
    {"order:create", "order:delete", "order:view:own", "order:update:status", "order",
     "order:*", "menu:view", "kitchen:update", "employee:delete", "settings:security",
     "profile:view:own", "*", "", ":*"}

\* The optional third argument: omitted, or an array.
ExtraArgs ==
    {[defined |-> FALSE, list |-> << >>]}
        \cup {[defined |-> TRUE, list |-> l] :
                l \in {<< >>, <<"order:*">>, <<"order:delete">>, <<"*">>,
                       <<"employee:delete", "order">>}}

InitPerm ==
    /\ orders = [i \in {} |-> 0]
    /\ nextId = 1
    /\ today = 1
    /\ inflight = [c \in Conns |-> NoRes]
    /\ users = [i \in {} |-> 0]
    /\ issued = {}
    /\ clock = 0
    /\ req = NoReq
    /\ res = NoRes
    /\ perm \in {[done |-> FALSE, role |-> r, permission |-> p, extras |-> e, result |-> FALSE] :
                    r \in RoleArgs, p \in PermissionArgs, e \in ExtraArgs}

HasPermission ==
    /\ ~perm.done
    /\ perm' = [perm EXCEPT !.done = TRUE,
                            !.result = hasPermission(perm.role, perm.permission, perm.extras)]
    /\ UNCHANGED <<orderVars, authVars, req, res>>

NextPerm == HasPermission

SpecPerm == InitPerm /\ [][NextPerm]_vars

----------------------------------------------------------------------------
(* Authentication and permission properties *)

\* The token of a header that carries one: scheme Bearer and a non-empty token.
Carried(header) ==
    IF /\ Len(header) >= 2
       /\ Len(header[1]) >= 6 /\ SubSeq(header[1], 1, 6) = "Bearer"
       /\ header[2] # EmptyToken
    THEN {header[2]} ELSE {}

\* Token t passes verification with key k now.
Valid(t, k) == "secret" \in DOMAIN t /\ t.secret = k /\ t.exp > clock

\* The persisted identities token t names as its subject.
Subject(t) == {u \in DOMAIN users : "id" \in DOMAIN t.payload /\ t.payload.id = u}

\* A step that answers a request to `op` (the clock does not move while a
\* request is handled).
AuthAnswers(op) == res'.op = op /\ clock' = clock

\* C8: authMiddleware calls next exactly when a bearer token is present,
\* verifies, names a persisted identity and that identity is active; otherwise
\* it answers 401 with the code of the first of these steps that fails.
C8_AuthOrder ==
    [][AuthAnswers("authMiddleware") =>
        LET carried == Carried(res'.arg)
            expected ==
                IF carried = {} THEN "NO_TOKEN"
                ELSE IF \E t \in carried : ~Valid(t, "JWT_SECRET") THEN "INVALID_TOKEN"
                ELSE IF \E t \in carried : Subject(t) = {} THEN "USER_NOT_FOUND"
                ELSE IF \E t \in carried : \E u \in Subject(t) : ~users[u].isActive
                     THEN "USER_INACTIVE"
                ELSE "next"
        IN  /\ res'.error = expected
            /\ (res'.error # "next") = (res'.code = 401)]_vars

\* A request with an issued, unexpired token of an active identity went through.
C8_Witness ==
    /\ res.op = "authMiddleware"
    /\ res.error = "next"
    /\ \E t \in issued : res.arg = <<"Bearer", t>> /\ users[t.payload.id].isActive

\* What login, refreshToken and authMiddleware answer to identity u's own
\* credentials and tokens: accepted when u is active, refused when u is not.
LockedOutWhileInactive ==
    \A u \in DOMAIN users :
        /\ (/\ AuthAnswers("login")
            /\ res'.arg.email = users[u].email
            /\ res'.arg.password # ""
            /\ users[u].password = Hash(res'.arg.password))
              => res'.error = IF users[u].isActive THEN "" ELSE "Invalid credentials"
        /\ (/\ AuthAnswers("refreshToken")
            /\ res'.arg \in issued
            /\ Valid(res'.arg, "JWT_REFRESH_SECRET")
            /\ res'.arg.payload.id = u)
              => res'.error = IF users[u].isActive THEN "" ELSE "User not found or inactive"
        /\ (/\ AuthAnswers("authMiddleware")
            /\ \E t \in issued : /\ res'.arg = <<"Bearer", t>>
                                 /\ Valid(t, "JWT_SECRET")
                                 /\ t.payload.id = u)
              => res'.error = IF users[u].isActive THEN "next" ELSE "USER_INACTIVE"

\* An identity is inactive exactly from a completed deactivateUser to the next
\* completed activateUser.
ActiveFlagSteps ==
    /\ (res'.op = "deactivateUser" /\ res'.error = "") => ~users'[res'.arg].isActive
    /\ (res'.op = "activateUser" /\ res'.error = "") => users'[res'.arg].isActive
    /\ \A u \in DOMAIN users :
        users'[u].isActive # users[u].isActive
            => res'.op \in {"deactivateUser", "activateUser"} /\ res'.arg = u

\* C9: from deactivateUser(u) to activateUser(u), login with u's email and
\* password fails with 'Invalid credentials', refreshToken with u's refresh
\* token fails with 'User not found or inactive' and requests with u's access
\* token are denied with USER_INACTIVE; after activateUser(u) all three are
\* accepted again.
C9_LockedOut == [][LockedOutWhileInactive /\ ActiveFlagSteps]_vars

\* A deactivated identity presented a refresh token it was issued and was refused.
C9_Witness ==
    /\ res.op = "refreshToken"
    /\ res.error = "User not found or inactive"
    /\ res.arg \in issued
    /\ res.arg.payload.id \in DOMAIN users
    /\ ~users[res.arg.payload.id].isActive

\* The part of a permission string before its first colon (all of it when it
\* has none).
Resource(p) ==
    LET n == CHOOSE n \in 0..Len(p) :
                /\ \A k \in 1..n : SubSeq(p, k, k) # ":"
                /\ n = Len(p) \/ SubSeq(p, n + 1, n + 1) = ":"
    IN  SubSeq(p, 1, n)

\* The static permissions of a role, as a set.
Granted(role) ==
    IF role \in DOMAIN ROLE_PERMISSIONS
    THEN {ROLE_PERMISSIONS[role][k] : k \in 1..Len(ROLE_PERMISSIONS[role])}
    ELSE {}

\* C10: hasPermission(role, permission, extras) is true exactly when role is
\* admin, or the role's list holds '*', the permission itself or
\* '<resource>:*', or extras holds the permission itself; it is true for admin
\* whatever the permission.
C10_HasPermission ==
    perm.done =>
        /\ perm.result =
            \/ perm.role = "admin"
            \/ "*" \in Granted(perm.role)
            \/ perm.permission \in Granted(perm.role)
            \/ (Resource(perm.permission) \o ":*") \in Granted(perm.role)
            \/ /\ perm.extras.defined
               /\ perm.permission \in {perm.extras.list[k] : k \in 1..Len(perm.extras.list)}
        /\ perm.role = "admin" => perm.result

\* A kitchen identity with the extra permission 'order:*' asked for
\* 'order:delete' and was refused.
C10_Witness ==
    /\ perm.done
    /\ perm.role = "kitchen"
    /\ perm.permission = "order:delete"
    /\ perm.extras = [defined |-> TRUE, list |-> <<"order:*">>]
    /\ ~perm.result

\* C11: for a role other than admin, a resource x and any action a, if
\* hasPermission(R, 'x:*') is true then hasPermission(R, 'x:a') is true.
C11_WildcardImplies ==
    (/\ perm.done
     /\ perm.role # "admin"
     /\ ~perm.extras.defined
     /\ Len(Resource(perm.permission)) < Len(perm.permission))
        => (hasPermission(perm.role, Resource(perm.permission) \o ":*", perm.extras)
                => perm.result)

\* The manager role, which holds 'order:*', was granted 'order:update:status'.
C11_Witness ==
    /\ perm.done
    /\ perm.role = "manager"
    /\ ~perm.extras.defined
    /\ perm.permission = "order:update:status"
    /\ hasPermission("manager", "order:*", perm.extras)
    /\ perm.result

----------------------------------------------------------------------------
(* Authorization gates: any sequence of gates on one authenticated request *)

\* An identity as register persists it.
Identity(username, email, role, restaurantId) ==
    [username |-> username, email |-> email, password |-> Hash("Passw0rd!"), role |-> role,
     restaurantId |-> restaurantId, isActive |-> TRUE, lastLogin |-> 0 - 1]

\* req.user as authMiddleware attaches it: the identity without its password.
Loaded(coll, id) ==
    [f \in (DOMAIN coll[id] \ {"password"}) \cup {"_id"} |->
        IF f = "_id" THEN id ELSE coll[id][f]]

\* Tokens sent in x-additional-auth, all issued at second 0: one bound to
\* identity 1 and 'user:delete', one bound to another identity, one bound to
\* another operation, one signed with another key, one that expires after two
\* minutes, a session token and an unparsable string.
AdditionalAuthTokens ==
    {[payload |-> [userId |-> "1", operation |-> "user:delete"], secret |-> "JWT_SECRET",
      iat |-> 0, exp |-> 600],
     [payload |-> [userId |-> "2", operation |-> "user:delete"], secret |-> "JWT_SECRET",
      iat |-> 0, exp |-> 600],
     [payload |-> [userId |-> "1", operation |-> "data:export"], secret |-> "JWT_SECRET",
      iat |-> 0, exp |-> 600],
     [payload |-> [userId |-> "1", operation |-> "user:delete"], secret |-> "other",
      iat |-> 0, exp |-> 600],
     [payload |-> [userId |-> "1", operation |-> "user:delete"], secret |-> "JWT_SECRET",
      iat |-> 0, exp |-> 120],
     [payload |-> [id |-> 1], secret |-> "JWT_SECRET", iat |-> 0, exp |-> 600],
     [malformed |-> TRUE]}

\* Date.now() when the step-up gate runs, in milliseconds
NowMs == {299000, 300000, 300001, 301000}

OperationArgs == {"user:delete", "data:export", "menu:view"}

ActionArgs == {"delete_user", "export_customer_data", "view_menu"}

\* Ids handed to User.findById: persisted, unknown, and not an ObjectId.
UserIdArgs == {[id |-> 1], [id |-> 2], [id |-> 3], [malformed |-> TRUE]}

GateRequests(coll) ==
    LET bare == {[params |-> p, query |-> q, headers |-> h] :
                    p \in {[x \in {} |-> 0], [id |-> "1"], [id |-> "2"]},
                    q \in {[x \in {} |-> 0], [restaurantId |-> "rB"],
                           [restaurantId |-> "rA", status |-> "pending"]},
                    h \in {[x \in {} |-> 0]}
                            \cup {[x \in {"x-additional-auth"} |-> t] :
                                    t \in AdditionalAuthTokens \cup {EmptyToken}}}
    IN  bare \cup {[f \in DOMAIN r \cup {"user"} |->
                        IF f = "user" THEN Loaded(coll, i) ELSE r[f]] :
                    r \in bare, i \in DOMAIN coll}

InitGate ==
    /\ orders = [i \in {} |-> 0]
    /\ nextId = 1
    /\ today = 1
    /\ inflight = [c \in Conns |-> NoRes]
    /\ \E r \in UserRole :
        users = [i \in {1, 2} |->
                    IF i = 1 THEN Identity("alice", "a@x.io", r, "rA")
                    ELSE Identity("bob", "b@x.io", "waiter", "rB")]
    /\ issued = {}
    /\ clock = 0
    /\ perm = NoCall
    /\ req \in GateRequests(users)
    /\ res = NoRes

RequireRoleLevel ==
    /\ \E minimumRole \in RoleArgs : requireRoleLevel(minimumRole)
    /\ UNCHANGED <<orderVars, authVars, perm>>

RequireOwnership ==
    /\ \E resourceIdParam \in {"id", "userId"} : requireOwnership(resourceIdParam, "_id")
    /\ UNCHANGED <<orderVars, authVars, perm>>

RequireSameRestaurant ==
    /\ requireSameRestaurant
    /\ UNCHANGED <<orderVars, authVars, perm>>

RequireAdditionalAuth ==
    /\ \E operation \in OperationArgs, now \in NowMs : requireAdditionalAuth(operation, now)
    /\ UNCHANGED <<orderVars, authVars, perm>>

RequireAdditionalAuthCheck ==
    /\ \E userId \in UserIdArgs, action \in ActionArgs :
            AuthService_requireAdditionalAuth(userId, action)
    /\ UNCHANGED <<orderVars, authVars, perm>>

\* Tokens handed to validateRole: the session token of each identity, signed
\* now or a day ago (expired), a refresh token, a step-up token (signed with
\* JWT_SECRET, no role), a token signed with another key, an unparsable string.
RoleTokens(coll) ==
    {getSignedJwtToken(u, coll[u], d) : u \in DOMAIN coll, d \in {0, 0 - JWT_EXPIRE}}
        \cup {getRefreshToken(1, 0), StepUp, Forged, Malformed}

ValidateRole ==
    /\ \E token \in RoleTokens(users), requiredRole \in RoleArgs :
            validateRole(token, requiredRole)
    /\ UNCHANGED <<orderVars, authVars, perm>>

NextGate ==
    \/ RequireRoleLevel
    \/ RequireOwnership
    \/ RequireSameRestaurant
    \/ RequireAdditionalAuth
    \/ RequireAdditionalAuthCheck

SpecGate == InitGate /\ [][NextGate]_vars

\* The two role-level checks side by side.
NextRole == ValidateRole \/ RequireRoleLevel

SpecRole == InitGate /\ [][NextRole]_vars

----------------------------------------------------------------------------
(* Gate properties *)

\* The gate `op` answers, in this step, a request that carries an authenticated caller.
GateAnswers(op) == res'.op = op /\ "user" \in DOMAIN req

\* The position of a role in customer < kitchen < waiter < manager < admin.
Rank(role) ==
    CHOOSE k \in 1..5 : <<"customer", "kitchen", "waiter", "manager", "admin">>[k] = role

\* C12: for caller and minimum roles of the enumerated set, requireRoleLevel
\* lets the request proceed exactly when the caller's level is at least the
\* minimum role's level, and otherwise denies with 403 INSUFFICIENT_ROLE_LEVEL.
C12_RoleLevel ==
    [][(GateAnswers("requireRoleLevel") /\ req.user.role \in UserRole /\ res'.arg \in UserRole) =>
        IF Rank(req.user.role) >= Rank(res'.arg)
        THEN res'.error = "next"
        ELSE res'.code = 403 /\ res'.error = "INSUFFICIENT_ROLE_LEVEL"]_vars

\* A waiter was stopped at a manager gate.
C12_Witness ==
    /\ res.op = "requireRoleLevel"
    /\ res.arg = "manager"
    /\ "user" \in DOMAIN req
    /\ req.user.role = "waiter"
    /\ res.error = "INSUFFICIENT_ROLE_LEVEL"

\* The step-up token of the request, if one is presented.
StepUpPresented ==
    IF "x-additional-auth" \in DOMAIN req.headers
    THEN {req.headers["x-additional-auth"]} \ {EmptyToken}
    ELSE {}

\* Token t is acceptable for operation `operation` of the caller at time `now` (ms):
\* it verifies, is bound to the caller and to the operation, and is at most
\* 300 seconds old.
StepUpAcceptable(t, operation, now) ==
    /\ "secret" \in DOMAIN t /\ t.secret = "JWT_SECRET" /\ now < t.exp * 1000
    /\ "userId" \in DOMAIN t.payload /\ t.payload.userId = ToString(req.user._id)
    /\ "operation" \in DOMAIN t.payload /\ t.payload.operation = operation
    /\ now - t.iat * 1000 <= 300 * 1000

\* C13: for a sensitive operation the step-up gate lets the request proceed
\* exactly when a step-up token is presented, verifies, is bound to the caller
\* and to the requested operation and is at most 300 seconds old, and denies
\* otherwise; for any other operation it lets the request proceed.
C13_StepUpGate ==
    [][GateAnswers("requireAdditionalAuth") =>
        IF res'.arg.operation \in SENSITIVE_OPERATIONS
        THEN /\ (res'.error = "next") =
                    (\E t \in StepUpPresented :
                        StepUpAcceptable(t, res'.arg.operation, res'.arg.now))
             /\ (res'.error # "next") => res'.code = 403
        ELSE res'.error = "next"]_vars

\* A token issued 299 seconds earlier for this caller and operation was accepted.
C13_Witness ==
    /\ res.op = "requireAdditionalAuth"
    /\ res.arg.operation = "user:delete"
    /\ res.arg.now = 299000
    /\ "user" \in DOMAIN req
    /\ "x-additional-auth" \in DOMAIN req.headers
    /\ res.error = "next"

\* C14: for a sensitive operation with a step-up token presented, every denial
\* is the same response (403, INVALID_ADDITIONAL_AUTH, one message); without a
\* token the denial is ADDITIONAL_AUTH_REQUIRED.
C14_UniformDenial ==
    [][(/\ GateAnswers("requireAdditionalAuth")
        /\ res'.arg.operation \in SENSITIVE_OPERATIONS
        /\ res'.error # "next") =>
        IF StepUpPresented # {}
        THEN /\ res'.code = 403
             /\ res'.error = "INVALID_ADDITIONAL_AUTH"
             /\ res'.message = "Invalid or expired additional authentication token"
        ELSE /\ res'.code = 403
             /\ res'.error = "ADDITIONAL_AUTH_REQUIRED"]_vars

\* A token of the caller for the operation was refused for its age alone.
C14_Witness ==
    /\ res.op = "requireAdditionalAuth"
    /\ res.arg.operation = "user:delete"
    /\ res.arg.now = 301000
    /\ "user" \in DOMAIN req
    /\ req.user._id = 1
    /\ "x-additional-auth" \in DOMAIN req.headers
    /\ req.headers["x-additional-auth"] =
        [payload |-> [userId |-> "1", operation |-> "user:delete"], secret |-> "JWT_SECRET",
         iat |-> 0, exp |-> 600]
    /\ res.error = "INVALID_ADDITIONAL_AUTH"

\* C15: AuthService.requireAdditionalAuth returns true exactly when the
\* lookup fails or finds no identity, or the identity exists, the action is
\* one of the five listed and the identity's role is admin or manager.
C15_RequiresAdditionalAuth ==
    [][res'.op = "AuthService.requireAdditionalAuth" =>
        LET found == IF "id" \in DOMAIN res'.arg.userId
                     THEN {i \in DOMAIN users : i = res'.arg.userId.id} ELSE {}
        IN  res'.result =
                \/ found = {}
                \/ /\ res'.arg.action \in
                        {"delete_user", "modify_permissions", "access_financial_reports",
                         "modify_system_settings", "export_customer_data"}
                   /\ \E i \in found : users[i].role \in {"admin", "manager"}]_vars

\* An unknown identity was asked about an action that is not listed: true.
C15_Witness ==
    /\ res.op = "AuthService.requireAdditionalAuth"
    /\ res.arg.userId = [id |-> 3]
    /\ res.arg.action = "view_menu"
    /\ res.result

\* C16: requireOwnership lets admin and manager proceed for any resource id;
\* any other role proceeds exactly when the id in the path is the caller's
\* own id and is otherwise denied with 403 RESOURCE_ACCESS_DENIED.
C16_Ownership ==
    [][GateAnswers("requireOwnership") =>
        IF \/ req.user.role \in {"admin", "manager"}
           \/ /\ res'.arg \in DOMAIN req.params
              /\ req.params[res'.arg] = ToString(req.user._id)
        THEN res'.error = "next"
        ELSE res'.code = 403 /\ res'.error = "RESOURCE_ACCESS_DENIED"]_vars

\* A waiter asked for another identity's resource and was denied.
C16_Witness ==
    /\ res.op = "requireOwnership"
    /\ res.arg = "id"
    /\ "user" \in DOMAIN req
    /\ req.user.role = "waiter"
    /\ req.user._id = 2
    /\ req.params = [id |-> "1"]
    /\ res.error = "RESOURCE_ACCESS_DENIED"

\* C17: after requireSameRestaurant the query's tenant id is the caller's own
\* for a caller who is not admin, whatever was sent, the rest of the query
\* being kept; for an admin the query is left as sent.
C17_TenantScope ==
    [][GateAnswers("requireSameRestaurant") =>
        /\ res'.error = "next"
        /\ IF req.user.role = "admin"
           THEN req' = req
           ELSE /\ req'.query.restaurantId = req.user.restaurantId
                /\ \A f \in DOMAIN req.query \ {"restaurantId"} :
                        f \in DOMAIN req'.query /\ req'.query[f] = req.query[f]
                /\ req'.user = req.user]_vars

\* A caller of tenant rA sent tenant rB and the query now names rA.
C17_Witness ==
    /\ res.op = "requireSameRestaurant"
    /\ res.arg = [restaurantId |-> "rB"]
    /\ "user" \in DOMAIN req
    /\ req.user.restaurantId = "rA"
    /\ req.query.restaurantId = "rA"

\* C23: validateRole(token, requiredRole) is true exactly when the token
\* verifies and the level of the role it carries is at least the level of
\* requiredRole; it is false for an invalid token; for enumerated roles it
\* agrees with the decision of requireRoleLevel for a caller of that role.
C23_ValidateRole ==
    [][/\ res'.op = "AuthService.validateRole" =>
            LET t == res'.arg.token
                m == res'.arg.requiredRole
            IN  /\ res'.result \in BOOLEAN
                /\ ~Valid(t, "JWT_SECRET") => ~res'.result
                /\ (/\ Valid(t, "JWT_SECRET") /\ "role" \in DOMAIN t.payload
                    /\ t.payload.role \in UserRole /\ m \in UserRole)
                        => res'.result = (Rank(t.payload.role) >= Rank(m))
                /\ res'.result => Valid(t, "JWT_SECRET")
       /\ (GateAnswers("requireRoleLevel") /\ req.user.role \in UserRole /\ res'.arg \in UserRole)
            => \A t \in RoleTokens(users) :
                    (Valid(t, "JWT_SECRET") /\ "role" \in DOMAIN t.payload
                        /\ t.payload.role = req.user.role)
                    => validateRoleResult(t, res'.arg, clock) = (res'.error = "next")]_vars

\* The session token of a manager was validated against admin and refused.
C23_Witness ==
    /\ res.op = "AuthService.validateRole"
    /\ Valid(res.arg.token, "JWT_SECRET")
    /\ "role" \in DOMAIN res.arg.token.payload
    /\ res.arg.token.payload.role = "manager"
    /\ res.arg.requiredRole = "admin"
    /\ ~res.result

----------------------------------------------------------------------------
(* Identity properties *)

\* No two persisted identities share an email or a username.
UniqueIdentities(coll) ==
    \A i, j \in DOMAIN coll :
        i # j => coll[i].email # coll[j].email /\ coll[i].username # coll[j].username

\* C19: after any sequence of register calls no two identities share an email
\* or a username; a register call whose email or username is that of an
\* existing identity fails with 'User with this email or username already
\* exists', creates no identity and issues no token.
C19_UniqueIdentity ==
    [][/\ UniqueIdentities(users')
       /\ (/\ AuthAnswers("register")
           /\ \E i \in DOMAIN users : \/ users[i].email = res'.arg.email
                                      \/ users[i].username = res'.arg.username)
            => /\ res'.error = "User with this email or username already exists"
               /\ users' = users
               /\ issued' = issued]_vars

\* A second registration under a taken username and a free email was refused.
C19_Witness ==
    /\ res.op = "register"
    /\ res.error = "User with this email or username already exists"
    /\ \E i \in DOMAIN users : users[i].username = res.arg.username
    /\ \A i \in DOMAIN users : users[i].email # res.arg.email

\* The active identities the credentials of a login request belong to.
Holders(credentials) ==
    {u \in DOMAIN users :
        /\ credentials.email # "" /\ credentials.password # ""
        /\ users[u].email = credentials.email
        /\ users[u].isActive
        /\ users[u].password = Hash(credentials.password)}

RefreshTyped(t) ==
    /\ Valid(t, "JWT_REFRESH_SECRET")
    /\ "type" \in DOMAIN t.payload
    /\ t.payload.type = "refresh"

\* C21: refreshToken(t) issues a new access/refresh pair exactly when t is
\* non-empty, verifies as signed for refresh, carries the type 'refresh' and
\* names an existing, active identity; otherwise it fails and issues nothing
\* (an access token is never accepted); it changes no persisted identity.
C21_Refresh ==
    [][AuthAnswers("refreshToken") =>
        LET t == res'.arg
            accepted == /\ "empty" \notin DOMAIN t
                        /\ RefreshTyped(t)
                        /\ Subject(t) # {}
                        /\ \A u \in Subject(t) : users[u].isActive
        IN  /\ (res'.error = "") = accepted
            /\ accepted =>
                    \E a, r \in issued' :
                        /\ a.secret = "JWT_SECRET" /\ a.iat = clock
                        /\ a.payload.id \in Subject(t)
                        /\ a.payload.email = users[a.payload.id].email
                        /\ r.secret = "JWT_REFRESH_SECRET" /\ r.iat = clock
                        /\ r.payload = [id |-> a.payload.id, type |-> "refresh"]
                        /\ issued' = issued \cup {a, r}
            /\ ~accepted => issued' = issued
            /\ ("secret" \in DOMAIN t /\ "type" \notin DOMAIN t.payload) => res'.error # ""
            /\ users' = users]_vars

\* An access token the service issued was presented as a refresh token and
\* was refused.
C21_Witness ==
    /\ res.op = "refreshToken"
    /\ res.error # ""
    /\ res.arg \in issued
    /\ res.arg.secret = "JWT_SECRET"
    /\ res.arg.payload.id \in DOMAIN users
    /\ users[res.arg.payload.id].isActive

\* login with this email and password succeeds on the identities `coll`
\* (C20: an active identity with the email whose credential matches).
LoginSucceeds(coll, email, password) ==
    \E u \in DOMAIN coll :
        coll[u].email = email /\ coll[u].isActive /\ coll[u].password = Hash(password)

\* The current password sent matches the stored credential of the identity.
CurrentMatches(a) == a.userId \in DOMAIN users /\ users[a.userId].password = Hash(a.current)

\* What a failed changePassword leaves behind.
C22_Failures(a) ==
    /\ a.userId \notin DOMAIN users => res'.error = "User not found"
    /\ (a.userId \in DOMAIN users /\ ~CurrentMatches(a))
            => res'.error = "Current password is incorrect"
    /\ res'.error # "" => users' = users
    /\ issued' = issued

\* C22 as stated: changePassword replaces the credential exactly when the
\* identity exists and current matches; after a successful change login
\* succeeds with the new password and fails with the old one; a failed call
\* leaves the stored credential unchanged.
C22_AsStated ==
    [][res'.op = "changePassword" =>
        LET a == res'.arg
        IN  /\ (res'.error = "") = CurrentMatches(a)
            /\ res'.error = "" =>
                    /\ LoginSucceeds(users', users[a.userId].email, a.new)
                    /\ ~LoginSucceeds(users', users[a.userId].email, a.current)
            /\ C22_Failures(a)]_vars

\* C22 amended: changePassword replaces the credential exactly when the
\* identity exists, current matches and the new password has at least 8
\* characters; after a successful change the stored credential is the hash of
\* the new password and nothing else of the identities changed, so login of
\* an active identity succeeds with the new password and fails with every
\* other one; a failed call leaves the identities unchanged.
C22_ChangePassword ==
    [][res'.op = "changePassword" =>
        LET a == res'.arg
        IN  /\ (res'.error = "") = (CurrentMatches(a) /\ Len(a.new) >= 8)
            /\ res'.error = "" =>
                    /\ users' = [users EXCEPT ![a.userId].password = Hash(a.new)]
                    /\ users[a.userId].isActive =>
                            /\ LoginSucceeds(users', users[a.userId].email, a.new)
                            /\ \A c \in Credentials :
                                    (c.email = users[a.userId].email /\ c.password # a.new)
                                        => ~LoginSucceeds(users', c.email, c.password)
            /\ C22_Failures(a)]_vars

\* An active identity changed its password to a different, valid one.
C22_Witness ==
    /\ res.op = "changePassword"
    /\ res.error = ""
    /\ res.arg.new # res.arg.current
    /\ res.arg.userId \in DOMAIN users
    /\ users[res.arg.userId].isActive
    /\ users[res.arg.userId].password = Hash(res.arg.new)

----------------------------------------------------------------------------
(* Monetary fields: createOrder and updateOrder requests, one at a time *)

\* Bodies that carry an order number and a discount below or above
\* subtotal + tax.
DiscountBodies ==
    {[items |-> <<Item100>>, subtotal |-> 0, tax |-> 10, discount |-> d, total |-> 0,
      orderNumber |-> n] : d \in {5, 200}, n \in {"T-1", "T-2", "T-3"}}

CreateDiscounted ==
    /\ \E caller \in Callers, body \in DiscountBodies : createOrder(caller, body)
    /\ UNCHANGED <<authVars, perm, req>>

NextMoney == CreateDiscounted \/ UpdateOrder

SpecMoney == Init /\ [][NextMoney]_vars

\* C24: every persisted order has subtotal >= 0, tax >= 0, discount >= 0 and
\* total >= 0.
C24_NonNegative ==
    \A i \in DOMAIN orders :
        /\ orders[i].subtotal >= 0
        /\ orders[i].tax >= 0
        /\ orders[i].discount >= 0
        /\ orders[i].total >= 0

----------------------------------------------------------------------------
(* Order service calls next to the HTTP requests, one at a time *)

CreateNumbered ==
    /\ \E caller \in Callers, body \in {b \in DiscountBodies : b.discount = 5} :
            createOrder(caller, body)
    /\ UNCHANGED <<authVars, perm, req>>

ServiceUpdateOrder ==
    /\ \E orderId \in OrderIds \cup {0}, updates \in {[discount |-> 20], [discount |-> 0 - 1]} :
            OrderService_updateOrder(orderId, updates)
    /\ UNCHANGED <<authVars, perm, req>>

ServiceDeleteOrder ==
    /\ \E orderId \in OrderIds \cup {0} : OrderService_deleteOrder(orderId)
    /\ UNCHANGED <<authVars, perm, req>>

NextService ==
    CreateNumbered \/ UpdateOrderStatus \/ ServiceUpdateOrder \/ ServiceDeleteOrder

SpecService == Init /\ [][NextService]_vars

\* C25: updateOrder of the order service returns an error and changes nothing
\* when the order is served or cancelled, and deleteOrder of the order service
\* returns an error and deletes nothing unless the order is pending or
\* cancelled.
C25_ServiceStateRules ==
    [][/\ (/\ res'.op = "OrderService.updateOrder"
            /\ res'.id \in DOMAIN orders
            /\ orders[res'.id].status \in {"served", "cancelled"})
                => res'.error # "" /\ orders' = orders
       /\ (/\ res'.op = "OrderService.deleteOrder"
            /\ res'.id \in DOMAIN orders
            /\ orders[res'.id].status \notin {"pending", "cancelled"})
                => res'.error # "" /\ orders' = orders]_vars

\* C26: requests handled one at a time: every change of a persisted order's
\* status is one of the transitions of the status table, also when it is made
\* by updateOrder with a patch that carries a status.
C26_StatusChangesFollowTable ==
    [][\A i \in DOMAIN orders \cap DOMAIN orders' :
        orders'[i].status # orders[i].status
            => <<orders[i].status, orders'[i].status>> \in TransitionTable]_vars

----------------------------------------------------------------------------
(* Status, update and delete requests on one order, interleaved at their awaits *)

CreateRaced ==
    /\ nextId <= MaxRaced
    /\ createOrder([id |-> "u1", restaurantId |-> "rA"],
                   [items |-> <<Item100>>, subtotal |-> 0, tax |-> 10, discount |-> 5,
                    total |-> 0, orderNumber |-> "T-1"])
    /\ UNCHANGED <<authVars, perm, req>>

UpdateOrderStatusFind ==
    /\ \E c \in Conns, caller \in Callers, id \in 1..MaxRaced, status \in StatusArgs :
            updateOrderStatusFind(c, caller, id, status)
    /\ UNCHANGED <<authVars, perm, req>>

UpdateOrderStatusSave ==
    /\ \E c \in Conns : updateOrderStatusSave(c)
    /\ UNCHANGED <<authVars, perm, req>>

UpdateOrderFind ==
    /\ \E c \in Conns, caller \in Callers, id \in 1..MaxRaced :
            updateOrderFind(c, caller, id, [discount |-> 20])
    /\ UNCHANGED <<authVars, perm, req>>

UpdateOrderWrite ==
    /\ \E c \in Conns : updateOrderWrite(c)
    /\ UNCHANGED <<authVars, perm, req>>

DeleteOrderFind ==
    /\ \E c \in Conns, caller \in Callers, id \in 1..MaxRaced : deleteOrderFind(c, caller, id)
    /\ UNCHANGED <<authVars, perm, req>>

DeleteOrderRemove ==
    /\ \E c \in Conns : deleteOrderRemove(c)
    /\ UNCHANGED <<authVars, perm, req>>

\* Concurrent updateOrderStatus requests.
NextStatusRace == CreateRaced \/ UpdateOrderStatusFind \/ UpdateOrderStatusSave

SpecStatusRace == Init /\ [][NextStatusRace]_vars

\* updateOrder and deleteOrder requests interleaved with updateOrderStatus.
NextRace ==
    \/ CreateRaced
    \/ UpdateOrderStatusFind
    \/ UpdateOrderStatusSave
    \/ UpdateOrderFind
    \/ UpdateOrderWrite
    \/ DeleteOrderFind
    \/ DeleteOrderRemove

SpecRace == Init /\ [][NextRace]_vars

\* C27: under any interleaving of updateOrderStatus requests on one order the
\* persisted status follows the status table: a cancelled or served order
\* never changes status, and ready is never followed by cancelled.
C27_StatusRace ==
    [][\A i \in DOMAIN orders \cap DOMAIN orders' :
        /\ orders[i].status \in {"cancelled", "served"} => orders'[i].status = orders[i].status
        /\ orders[i].status = "ready" => orders'[i].status # "cancelled"
        /\ orders'[i].status = orders[i].status
            \/ orders'[i].status \in validTransitions(orders[i].status)]_vars

\* C28: updateOrder never applies a patch to an order that is served or
\* cancelled when it is written, and deleteOrder never removes an order that
\* is confirmed, preparing, ready or served when it is removed.
C28_GuardsAtWrite ==
    [][/\ (res'.op = "updateOrder" /\ res'.id \in DOMAIN orders /\ orders' # orders)
            => orders[res'.id].status \notin {"served", "cancelled"}
       /\ (res'.op = "deleteOrder" /\ res'.id \in DOMAIN orders /\ res'.id \notin DOMAIN orders')
            => orders[res'.id].status \notin {"confirmed", "preparing", "ready", "served"}]_vars

----------------------------------------------------------------------------
(* Order number properties, requests handled one at a time *)

\* The step answers a createOrder request whose body leaves the order number
\* to the server and carries the other required fields.
AnswersUnnumbered ==
    /\ res'.op = "createOrder"
    /\ "orderNumber" \notin res'.arg
    /\ {"items", "subtotal", "tax", "total"} \subseteq res'.arg

\* Some order has been deleted: fewer orders are persisted than were inserted.
SomeDeleted == Cardinality(DOMAIN orders) < nextId - 1

\* The orders of a tenant created today.
TodayOf(tenant) ==
    {i \in DOMAIN orders : orders[i].restaurantId = tenant /\ orders[i].createdAt = today}

\* C29: after createOrder and deleteOrder requests of one day, the next
\* createOrder is assigned an order number that no persisted order holds and
\* is persisted.
C29_CreateAfterDelete ==
    [][(AnswersUnnumbered /\ SomeDeleted) =>
        /\ res'.code = 201
        /\ res'.id \in DOMAIN orders'
        /\ \A i \in DOMAIN orders : orders[i].orderNumber # orders'[res'.id].orderNumber]_vars

\* C30: the first order of a tenant on a day is persisted, with a number no
\* order holds, even when another tenant has created orders on that day.
C30_TenantIndependent ==
    [][(/\ AnswersUnnumbered
        /\ TodayOf(res'.tenant) = {}
        /\ \E t \in Tenants \ {res'.tenant} : TodayOf(t) # {}) =>
        /\ res'.code = 201
        /\ res'.id \in DOMAIN orders'
        /\ \A i \in DOMAIN orders : orders[i].orderNumber # orders'[res'.id].orderNumber]_vars

-----------------------------------------------------------------------------
(* Tenant isolation: order requests of two tenants, one at a time *)

\* Request bodies of POST /api/orders that may carry a tenant and a creator.
TenantBodies ==
    LET base == {[items |-> <<Item100>>, subtotal |-> 0, tax |-> 10, total |-> 0,
                  orderNumber |-> n] : n \in {"T-1", "T-2"}}
    IN  base \cup {[f \in DOMAIN b \cup {"restaurantId", "createdBy"} |->
                        CASE f = "restaurantId" -> c.restaurantId
                          [] f = "createdBy" -> c.id
                          [] OTHER -> b[f]] : b \in base, c \in Callers}

CreateForTenant ==
    /\ \E caller \in Callers, body \in TenantBodies : createOrder(caller, body)
    /\ UNCHANGED <<authVars, perm, req>>

GetOrderById ==
    /\ \E caller \in Callers, id \in OrderIds : getOrderById(caller, id)
    /\ UNCHANGED <<authVars, perm, req>>

NextTenant ==
    CreateForTenant \/ GetOrderById \/ UpdateOrder \/ UpdateOrderStatus \/ DeleteOrder

SpecTenant == Init /\ [][NextTenant]_vars

\* The request named op addressed an order stored under another tenant.
Foreign(op) ==
    /\ res'.op = op
    /\ res'.id \in DOMAIN orders
    /\ orders[res'.id].restaurantId # res'.tenant

ById == {"getOrderById", "updateOrder", "updateOrderStatus", "deleteOrder"}

\* A created order carries the caller's tenant and the caller as creator.
StoredForCaller ==
    res'.op = "createOrder" /\ res'.code = 201 =>
        /\ orders'[res'.id].restaurantId = res'.tenant
        /\ \E c \in Callers : /\ c.restaurantId = res'.tenant
                              /\ orders'[res'.id].createdBy = c.id

\* C31 as stated: getOrderById, updateOrder, updateOrderStatus and deleteOrder
\* addressed to an order of another tenant each answer 'Order not found' (404)
\* and leave the orders unchanged; createOrder stores the caller's tenant and
\* identity whatever the body carries.
C31_AsStated ==
    [][/\ \A op \in ById : Foreign(op) =>
            /\ res'.code = 404 /\ res'.error = "Order not found"
            /\ orders' = orders
       /\ StoredForCaller]_vars

\* C31: an order of another tenant is never returned, changed or deleted by
\* getOrderById, updateOrder, updateOrderStatus or deleteOrder: the answer is
\* 'Order not found' (404), except that updateOrderStatus without a status
\* answers 'Status is required' (400) before it looks the order up; the orders
\* are unchanged either way.  createOrder stores the caller's tenant and
\* identity whatever the body carries.
C31_TenantIsolation ==
    [][/\ \A op \in ById : Foreign(op) =>
            /\ orders' = orders
            /\ IF op = "updateOrderStatus" /\ res'.arg = ""
               THEN res'.code = 400 /\ res'.error = "Status is required"
               ELSE res'.code = 404 /\ res'.error = "Order not found"
       /\ StoredForCaller]_vars

\* C31 witness: a request on an existing order of the other tenant was answered 404.
C31_Witness ==
    /\ res.op \in ById /\ res.code = 404
    /\ res.id \in DOMAIN orders
    /\ orders[res.id].restaurantId # res.tenant
    /\ \E i \in DOMAIN orders : orders[i].restaurantId = res.tenant

-----------------------------------------------------------------------------
(* The total hook on one save of a loaded order *)

\* Orders in memory at the moment they are saved, and the paths marked modified.
SavedItems ==
    {<<Item100>>, <<Item100, [price |-> 30, quantity |-> 2]>>, <<[price |-> 0, quantity |-> 1]>>}

SavedDocs ==
    {[orderNumber |-> "T-1", restaurantId |-> "rA", createdBy |-> "u1", createdAt |-> 1,
      status |-> "pending", paymentStatus |-> "pending", items |-> i, subtotal |-> s,
      tax |-> t, discount |-> d, total |-> o] :
        i \in SavedItems, s \in {0, 100}, t \in {0, 10}, d \in {0, 5, 200}, o \in {0, 7}}

ModifiedPaths == SUBSET {"items", "subtotal", "tax", "discount", "status"}

InitTotal ==
    /\ req \in {[doc |-> d, modified |-> m] : d \in SavedDocs, m \in ModifiedPaths}
    /\ res = NoRes
    /\ orders = [i \in {} |-> 0]
    /\ nextId = 1
    /\ today = 1
    /\ inflight = [c \in Conns |-> NoRes]
    /\ users = [i \in {} |-> 0]
    /\ issued = {}
    /\ clock = 0
    /\ perm = NoCall

\* The total hook runs on the document being saved.
SaveTotal ==
    /\ res = NoRes
    /\ res' = [op |-> "save", arg |-> req, doc |-> TotalHook(req.doc, req.modified)]
    /\ UNCHANGED <<orderVars, authVars, perm, req>>

NextTotal == SaveTotal

SpecTotal == InitTotal /\ [][NextTotal]_vars

-----------------------------------------------------------------------------
(* Total hook properties *)

\* price x quantity of the first n items, added up
LineTotal(items, n) ==
    IF n = 0 THEN 0
    ELSE IF n = 1 THEN items[1].price * items[1].quantity
    ELSE items[1].price * items[1].quantity + items[2].price * items[2].quantity

\* C33: when items, subtotal, tax or discount is modified the hook sets
\* subtotal to the sum of price x quantity if the items are modified (whatever
\* subtotal was supplied) and total to subtotal + tax - discount, unclamped;
\* when none of the four is modified subtotal and total stay as they are.
C33_TotalHook ==
    res.op = "save" =>
        LET in == res.arg.doc
            m == res.arg.modified
            out == res.doc
        IN  IF m \cap {"items", "subtotal", "tax", "discount"} = {}
            THEN out.subtotal = in.subtotal /\ out.total = in.total
            ELSE /\ out.subtotal = IF "items" \in m THEN LineTotal(in.items, Len(in.items))
                                   ELSE in.subtotal
                 /\ out.total = out.subtotal + in.tax - in.discount

\* C33 witness: items worth 100 saved with a supplied subtotal of 0, tax 10 and
\* discount 200: the subtotal is 100 and the total -90.
C33_Witness ==
    /\ res.op = "save"
    /\ "items" \in res.arg.modified
    /\ res.arg.doc.subtotal = 0 /\ res.arg.doc.tax = 10 /\ res.arg.doc.discount = 200
    /\ res.doc.subtotal = 100 /\ res.doc.total = 0 - 90

\* C36: a role outside the enumeration has an empty permission list and level
\* 0 and always fails: hasPermission is false for every permission whatever
\* the extra permissions, and its level is below that of every minimum role
\* requireRoleLevel can be given.
C36_UnknownRoleFails ==
    (perm.done /\ perm.role \notin UserRole)
        => /\ Granted(perm.role) = {}
           /\ roleLevel(perm.role) = 0
           /\ \A minimumRole \in UserRole : roleLevel(perm.role) < roleLevel(minimumRole)
           /\ ~perm.result

\* C40: permissions grow with the hierarchy: a permission found in some role's
\* list that an enumerated role is granted without extra permissions is
\* granted to every enumerated role of the same or a higher level too.
C40_Monotone ==
    (/\ perm.done
     /\ perm.role \in UserRole
     /\ ~perm.extras.defined
     /\ perm.permission \in UNION {Granted(r) : r \in UserRole}
     /\ perm.result)
        => \A higher \in UserRole :
                ROLE_HIERARCHY[perm.role] <= ROLE_HIERARCHY[higher]
                    => hasPermission(higher, perm.permission, perm.extras)

-----------------------------------------------------------------------------
(* Frame of a status change, requests handled one at a time *)

-----------------------------------------------------------------------------
(* Permission strings without a colon, unknown roles *)

\* C35: for a permission string without a colon and a role other than admin,
\* hasPermission is true only if the role's list or the extra permissions hold
\* that exact string or the role's list holds '*'; holding '<permission>:*'
\* does not grant it.
C35_ColonlessSkipsWildcard ==
    (/\ perm.done
     /\ perm.role # "admin"
     /\ Resource(perm.permission) = perm.permission)
        => perm.result =
            \/ "*" \in Granted(perm.role)
            \/ perm.permission \in Granted(perm.role)
            \/ /\ perm.extras.defined
               /\ perm.permission \in {perm.extras.list[k] : k \in 1..Len(perm.extras.list)}

-----------------------------------------------------------------------------
(* Status chains: orders created and moved by updateOrderStatus alone *)

NextChain == CreateOrder \/ UpdateOrderStatus

SpecChain == Init /\ [][NextChain]_vars

\* The longest chain of status changes still ahead of an order in status s:
\* pending, confirmed, preparing, ready, served.
Remaining(s) ==
    CASE s = "pending" -> 4
      [] s = "confirmed" -> 3
      [] s = "preparing" -> 2
      [] s = "ready" -> 1
      [] OTHER -> 0

\* C39: every successful updateOrderStatus moves the order strictly forward
\* (the number of changes still possible drops, from 4 for pending), so no
\* status is entered twice and at most 4 changes follow a creation in
\* pending; an order that is neither served nor cancelled still has a status
\* it can move to, so only served and cancelled end a chain; and a served or
\* cancelled order rejects every updateOrderStatus.
C39_StatusChain ==
    [][Answers("updateOrderStatus") =>
        LET s == orders[res'.id].status
        IN  /\ res'.code = 200 =>
                /\ orders'[res'.id].status # s
                /\ Remaining(orders'[res'.id].status) < Remaining(s)
            /\ s \in {"served", "cancelled"} => res'.code # 200 /\ orders' = orders
            /\ s \notin {"served", "cancelled"} => validTransitions(s) # {}]_vars

\* C39 witness: a served order was asked to change its status again and the
\* request was rejected.
C39_Witness ==
    /\ res.op = "updateOrderStatus" /\ res.code = 400 /\ res.arg # ""
    /\ res.id \in DOMAIN orders
    /\ orders[res.id].restaurantId = res.tenant
    /\ orders[res.id].status = "served"
    /\ Remaining(orders[res.id].status) = 0

----------------------------------------------------------------------------
(* Order routes behind their middleware chain, one request at a time *)

\* Registrations of the staff and customers who call the order routes.
StaffData ==
    {[username |-> "alice", email |-> "a@x.io", password |-> "Passw0rd!", role |-> "manager",
      restaurantId |-> "rA"],
     [username |-> "bob", email |-> "b@x.io", password |-> "Passw0rd!", role |-> "customer",
      restaurantId |-> "rA"]}

\* Requests to the order routes: the route, its path id, its body and headers.
RouteRequests ==
    {q \in
     {[route |-> r, params |-> [id |-> ToString(i)], query |-> [x \in {} |-> 0],
      body |-> IF r = "createOrder"
               THEN [items |-> <<Item100>>, subtotal |-> 0, tax |-> 10, discount |-> 5,
                     total |-> 0, orderNumber |-> "T-1"]
               ELSE IF r = "updateOrder" THEN [discount |-> 20]
               ELSE IF r = "updateOrderStatus" THEN [status |-> "confirmed"]
               ELSE [x \in {} |-> 0],
      headers |-> h] :
        r \in {"createOrder", "updateOrder", "updateOrderStatus", "deleteOrder"},
        i \in OrderIds,
        h \in {[x \in {} |-> 0]}
                \cup {[x \in {"authorization"} |-> <<"Bearer", t>>] :
                        t \in {Forged, StepUp} \cup {b \in issued : b.secret = "JWT_SECRET"}}
                \cup {[x \in {"authorization", "x-additional-auth"} |->
                        IF x = "authorization" THEN <<"Bearer", a>>
                        ELSE [payload |-> [userId |-> "1", operation |-> "user:delete"],
                              secret |-> "JWT_SECRET", iat |-> 0, exp |-> 600]] :
                        a \in {a \in issued : a.secret = "JWT_SECRET"}}} :
        /\ q.route \in {"createOrder", "updateOrder"} => q.params.id = "1"
        /\ Has(q.headers, "x-additional-auth") => q.route = "deleteOrder"}

\* The authorization header as authMiddleware reads it.
Authorization(request) ==
    IF Has(request.headers, "authorization") THEN request.headers.authorization ELSE << >>

\* Mutant: the chain goes on after a response was sent.
ChainAlive_always == TRUE

\* The middleware that ran last called next().
ChainAlive == res.op # "none" /\ res.error = "next"

\* router.use(protect): authMiddleware on a new request; req.user is attached
\* when it lets the request through.
Protect ==
    /\ \E request \in RouteRequests :
        /\ authMiddleware(Authorization(request))
        /\ req' = IF authOutcome(Authorization(request), users, clock) = "next"
                  THEN [f \in DOMAIN request \cup {"user"} |->
                            IF f = "user"
                            THEN Loaded(users,
                                    CHOOSE id \in FindUserById(users,
                                        Authorization(request)[2].payload) : TRUE)
                            ELSE request[f]]
                  ELSE request
    /\ UNCHANGED <<orderVars, perm>>

\* The request is for `route` and carries the caller the controllers read.
Routed(route) == Has(req, "route") /\ Has(req, "user") /\ req.route = route

\* req.user as the controllers read it
Caller == [id |-> req.user._id, restaurantId |-> req.user.restaurantId]

\* A gate placed between protect and the handler.
Gate ==
    /\ ChainAlive
    /\ \/ requireRoleLevel("manager")
       \/ requireOwnership("id", "_id")
       \/ requireSameRestaurant
       \/ requireAdditionalAuth("user:delete", 301000)
    /\ UNCHANGED <<orderVars, authVars, perm>>

\* router.post('/', createOrder)
PostOrder ==
    /\ ChainAlive /\ Routed("createOrder")
    /\ createOrder(Caller, req.body)
    /\ UNCHANGED <<authVars, perm, req>>

\* router.put('/:id', updateOrder)
PutOrder ==
    /\ ChainAlive /\ Routed("updateOrder")
    /\ \E id \in OrderIds : ToString(id) = req.params.id
                            /\ updateOrder(Caller, id, req.body)
    /\ UNCHANGED <<authVars, perm, req>>

\* router.patch('/:id/status', authorize('admin', 'manager', 'waiter', 'kitchen'), updateOrderStatus)
PatchOrderStatus ==
    /\ ChainAlive /\ Routed("updateOrderStatus")
    /\ IF authorizeOutcome({"admin", "manager", "waiter", "kitchen"}).error # "next"
       THEN /\ authorize({"admin", "manager", "waiter", "kitchen"})
            /\ UNCHANGED orderVars
       ELSE /\ \E id \in OrderIds : ToString(id) = req.params.id
                                    /\ updateOrderStatus(Caller, id, req.body.status)
            /\ UNCHANGED req
    /\ UNCHANGED <<authVars, perm>>

\* router.delete('/:id', authorize('admin', 'manager'), deleteOrder)
DeleteOrderRoute ==
    /\ ChainAlive /\ Routed("deleteOrder")
    /\ IF authorizeOutcome({"admin", "manager"}).error # "next"
       THEN /\ authorize({"admin", "manager"})
            /\ UNCHANGED orderVars
       ELSE /\ \E id \in OrderIds : ToString(id) = req.params.id /\ deleteOrder(Caller, id)
            /\ UNCHANGED req
    /\ UNCHANGED <<authVars, perm>>

RegisterStaff ==
    /\ \E userData \in StaffData : register(userData)
    /\ UNCHANGED <<orderVars, perm, req>>

NextRoute ==
    \/ RegisterStaff
    \/ DeactivateUser
    \/ Protect
    \/ Gate
    \/ PostOrder
    \/ PutOrder
    \/ PatchOrderStatus
    \/ DeleteOrderRoute

SpecRoute == Init /\ [][NextRoute]_vars

-----------------------------------------------------------------------------
(* POST /api/auth/register behind authMiddleware and authorize, one request at a time *)

\* Identities that exist before anyone calls the route: a manager of tenant
\* rA, an admin without a tenant, a waiter of tenant rB.
SeedData ==
    {[username |-> "alice", email |-> "a@x.io", password |-> "Passw0rd!", role |-> "manager",
      restaurantId |-> "rA"],
     [username |-> "root", email |-> "r@x.io", password |-> "Passw0rd!", role |-> "admin"],
     [username |-> "bob", email |-> "b@x.io", password |-> "Passw0rd!", role |-> "waiter",
      restaurantId |-> "rB"]}

\* Request bodies that pass registerSchema: any role of the enumeration, the
\* restaurantId optional.
RegisterBodies ==
    LET base == {[username |-> u[1], email |-> u[2], password |-> "Passw0rd!", role |-> r] :
                    u \in {<<"carol", "c@x.io">>, <<"alice", "a@x.io">>},
                    r \in {"admin", "manager", "waiter"}}
    IN  base \cup {[f \in DOMAIN b \cup {"restaurantId"} |->
                        IF f = "restaurantId" THEN t ELSE b[f]] : b \in base, t \in Tenants}

RegisterRequests ==
    {[route |-> "register", params |-> [x \in {} |-> 0], query |-> [x \in {} |-> 0],
      body |-> b, headers |-> h] :
        b \in RegisterBodies,
        h \in {[x \in {} |-> 0]}
                \cup {[x \in {"authorization"} |-> <<"Bearer", t>>] :
                        t \in {t \in issued : t.secret = "JWT_SECRET"}}}

\* The identities are there before a request is being handled.
SeedStaff ==
    /\ ~ChainAlive
    /\ \E userData \in SeedData : register(userData)
    /\ UNCHANGED <<orderVars, perm, req>>

\* authMiddleware on a new request to the register route
ProtectRegister ==
    /\ \E request \in RegisterRequests :
        /\ authMiddleware(Authorization(request))
        /\ req' = IF authOutcome(Authorization(request), users, clock) = "next"
                  THEN [f \in DOMAIN request \cup {"user"} |->
                            IF f = "user"
                            THEN Loaded(users,
                                    CHOOSE id \in FindUserById(users,
                                        Authorization(request)[2].payload) : TRUE)
                            ELSE request[f]]
                  ELSE request
    /\ UNCHANGED <<orderVars, perm>>

\* userData as the route hands it to AuthService.register
RegisterData(request) ==
    IF request.user.role # "admin" /\ ~Has(request.body, "restaurantId")
    THEN [f \in DOMAIN request.body \cup {"restaurantId"} |->
            IF f = "restaurantId" THEN request.user.restaurantId ELSE request.body[f]]
    ELSE request.body

\* router.post('/register', authMiddleware, authorize('admin', 'manager'), ...)
PostRegister ==
    /\ ChainAlive /\ Routed("register")
    /\ IF authorizeOutcome({"admin", "manager"}).error # "next"
       THEN /\ authorize({"admin", "manager"})
            /\ UNCHANGED authVars
       ELSE /\ register(RegisterData(req))
            /\ UNCHANGED req
    /\ UNCHANGED <<orderVars, perm>>

NextRegister == SeedStaff \/ ProtectRegister \/ PostRegister

SpecRegister == Init /\ [][NextRegister]_vars

-----------------------------------------------------------------------------
(* Registration properties *)

\* The register route created an identity for the caller attached to req.
Registered ==
    /\ ChainAlive /\ Routed("register")
    /\ res'.op = "register" /\ res'.error = ""

Created == DOMAIN users' \ DOMAIN users

\* C32: an identity created through the register route never has a higher
\* hierarchy level than the caller who registers it.
C32_NoEscalation ==
    [][Registered => \A i \in Created :
            roleLevel(users'[i].role) <= roleLevel(req.user.role)]_vars

\* C37: an identity a caller who is not an admin creates through the register
\* route is in the caller's own tenant, whatever the body carries.
C37_OwnTenant ==
    [][Registered /\ req.user.role # "admin" => \A i \in Created :
            users'[i].restaurantId = req.user.restaurantId]_vars

-----------------------------------------------------------------------------
(* Session tokens and step-up tokens, each presented in the other's place *)

\* Step-up tokens of identity 1 and identity 2 for 'user:delete', signed
\* with JWT_SECRET at second 0.
StepUpTokens ==
    {[payload |-> [userId |-> ToString(i), operation |-> "user:delete"], secret |-> "JWT_SECRET",
      iat |-> 0, exp |-> 600] : i \in UserIds}

\* The access tokens the service has signed
AccessTokens == {t \in issued : t.secret = "JWT_SECRET"}

\* Requests that carry either kind of token as bearer and as x-additional-auth.
StepUpRequests ==
    {[route |-> "sensitive", params |-> [x \in {} |-> 0], query |-> [x \in {} |-> 0],
      headers |-> h] :
        h \in {[x \in {"authorization"} |-> <<"Bearer", b>>] :
                    b \in AccessTokens \cup StepUpTokens}
                \cup {[x \in {"authorization", "x-additional-auth"} |->
                        IF x = "authorization" THEN <<"Bearer", b>> ELSE a] :
                        b \in AccessTokens \cup StepUpTokens,
                        a \in AccessTokens \cup StepUpTokens}}

\* authMiddleware on a new request
ProtectSensitive ==
    /\ \E request \in StepUpRequests :
        /\ authMiddleware(Authorization(request))
        /\ req' = IF authOutcome(Authorization(request), users, clock) = "next"
                  THEN [f \in DOMAIN request \cup {"user"} |->
                            IF f = "user"
                            THEN Loaded(users,
                                    CHOOSE id \in FindUserById(users,
                                        Authorization(request)[2].payload) : TRUE)
                            ELSE request[f]]
                  ELSE request
    /\ UNCHANGED <<orderVars, perm>>

\* requireAdditionalAuth('user:delete') after authMiddleware, at once or 301
\* seconds after the tokens were signed.
StepUpGate ==
    /\ ChainAlive /\ Routed("sensitive")
    /\ \E now \in {0, 301000} : requireAdditionalAuth("user:delete", now)
    /\ UNCHANGED <<orderVars, authVars, perm>>

NextStepUp == RegisterStaff \/ ProtectSensitive \/ StepUpGate

SpecStepUp == Init /\ [][NextStepUp]_vars

\* A token with the claims of an access token
SessionClaims(t) == {"id", "email", "role", "restaurantId"} \subseteq DOMAIN t.payload

\* A token with the claims of a step-up token and no id
StepUpClaims(t) ==
    {"userId", "operation"} \subseteq DOMAIN t.payload /\ "id" \notin DOMAIN t.payload

\* C38: an access token presented as x-additional-auth for a sensitive
\* operation is always answered INVALID_ADDITIONAL_AUTH (403), and a step-up
\* token presented as bearer token never authenticates: authMiddleware
\* answers 401 and attaches no user.
C38_NotInterchangeable ==
    [][/\ (/\ res'.op = "requireAdditionalAuth"
           /\ Has(req.headers, "x-additional-auth")
           /\ SessionClaims(req.headers["x-additional-auth"]))
            => res'.code = 403 /\ res'.error = "INVALID_ADDITIONAL_AUTH"
       /\ (/\ res'.op = "authMiddleware"
           /\ Len(res'.arg) = 2
           /\ StepUpClaims(res'.arg[2]))
            => res'.code = 401 /\ ~Has(req', "user")]_vars

\* C38 witness: the caller's own unexpired access token was presented as
\* x-additional-auth and refused.
C38_Witness ==
    /\ res.op = "requireAdditionalAuth" /\ res.error = "INVALID_ADDITIONAL_AUTH"
    /\ res.arg.now = 0
    /\ Has(req.headers, "x-additional-auth")
    /\ req.headers["x-additional-auth"] \in AccessTokens
    /\ req.headers["x-additional-auth"].payload.id = req.user._id

----------------------------------------------------------------------------
(* Boundary properties *)

Denials ==
    {"NO_TOKEN", "INVALID_TOKEN", "USER_NOT_FOUND", "USER_INACTIVE", "INSUFFICIENT_PERMISSIONS",
     "INSUFFICIENT_ROLE_LEVEL", "RESOURCE_ACCESS_DENIED", "ADDITIONAL_AUTH_REQUIRED",
     "INVALID_ADDITIONAL_AUTH"}

Handlers == {"createOrder", "updateOrder", "updateOrderStatus", "deleteOrder"}

\* C18: a step that denies a request with one of the nine authorization codes
\* is answered by a middleware and changes no identity and no order, and no
\* handler runs for a request that was denied.
C18_DeniedAtBoundary ==
    [][/\ (res'.op # "none" /\ res'.error \in Denials)
            => /\ res'.op \notin Handlers
               /\ users' = users
               /\ orders' = orders
       /\ (res.op # "none" /\ res.error \in Denials) => res'.op \notin Handlers]_vars

\* A customer asked to delete a pending order of the tenant and was denied by
\* authorize; the order is still there.
C18_Witness ==
    /\ res.op = "authorize"
    /\ res.error = "INSUFFICIENT_PERMISSIONS"
    /\ Has(req, "route") /\ req.route = "deleteOrder"
    /\ \E i \in DOMAIN orders : ToString(i) = req.params.id /\ orders[i].status = "pending"

====
